---- MODULE Spec2Model ----
(***************************************************************************)
(* Task routing of lorenzogirardi/a2a: SmartRouter.route                   *)
(* (agents/router/router.py), TaskExecutor (agents/router/executor.py),    *)
(* AgentRegistry lookups (agents/registry.py) and the LangGraph variant    *)
(* (agents/graph/nodes.py, graph.py, runner.py).                           *)
(*                                                                         *)
(* One behaviour is one task handled by one orchestrator.  A step is the   *)
(* code between two suspension points (await) or two status assignments.   *)
(* The analyzer, the synthesizer and the agents are collaborators: each    *)
(* call either returns or raises, chosen nondeterministically.             *)
(*                                                                         *)
(* Further specifications over the same variables model the components     *)
(* called on their own: AgentRegistry (SpecRegistry, SpecLookup),          *)
(* ChainPipeline.run (SpecChain), RouterResult.total_tokens (SpecTokens),  *)
(* AnalyzerAgent.analyze inside a task (SpecAnalyzer) and                  *)
(* GraphRunner.stream (SpecStream).                                        *)
(***************************************************************************)
EXTENDS Integers, Sequences, FiniteSets, TLC

\* Longest detected_capabilities list the analyzer returns in this model.
MaxDetected == 2

\* Capability tags; no agent provides "unknown".
Capabilities == {"calculation", "creative_writing", "unknown"}

\* Identifiers of the agents that can be registered.
AgentIds == {"calc", "writer", "multi"}

\* Messages carried by raised exceptions; str(e) of an exception built
\* without arguments is the empty string.
Messages == {"", "boom"}

\* agent.config.capabilities of each agent.
AgentCapabilities(a) ==
    CASE a = "calc"   -> {"calculation"}
      [] a = "writer" -> {"creative_writing"}
      [] a = "multi"  -> {"calculation", "creative_writing"}
      [] a = "calc#2" -> {"creative_writing"}

\* response.content of an agent whose receive_message returns.
AgentOutput(a) == "out_" \o a

\* Subtask text the analyzer attaches to a capability.
SubtaskText(c) == "do_" \o c

Range(s) == {s[i] : i \in 1..Len(s)}

SeqsUpTo(S, n) == UNION {[1..k -> S] : k \in 0..n}

\* Contents of AgentRegistry._agents: a dict, so identifiers are distinct and
\* kept in insertion order.
RegistryContents ==
    {s \in SeqsUpTo(AgentIds, Cardinality(AgentIds)) :
        \A i, j \in 1..Len(s) : i # j => s[i] # s[j]}

\* Optional values: <<>> is None, <<v>> is v.
None == <<>>
Some(v) == <<v>>

\* Event records handed to a sink.
Ev(t, a, b, c) == [type |-> t, a |-> a, b |-> b, c |-> c]

BoolText(b) == IF b THEN "true" ELSE "false"

----------------------------------------------------------------------------
(* AgentRegistry *)

\* AgentRegistry.find_by_capability: the agents having the tag, in
\* registration order.
find_by_capability(reg, capability) ==
    SelectSeq(reg, LAMBDA a : capability \in AgentCapabilities(a))

\* AgentRegistry.get(agent_id) is not None.
registry_has(reg, agent_id) == agent_id \in Range(reg)

----------------------------------------------------------------------------
(* Discovery: one CapabilityMatch per entry of detected_capabilities *)

CapabilityMatch(reg, capability) ==
    LET agent_ids == find_by_capability(reg, capability)
    IN  [capability |-> capability,
         agent_ids  |-> agent_ids,
         matched    |-> Len(agent_ids) > 0]

Discover(reg, detected) ==
    [i \in 1..Len(detected) |-> CapabilityMatch(reg, detected[i])]

\* any(m.matched for m in matches)
AnyMatched_NonEmptyList(matches) == Len(matches) > 0

AnyMatched(matches) == \E i \in 1..Len(matches) : matches[i].matched

----------------------------------------------------------------------------
(* TaskExecutor *)

\* agent_id = match.agent_ids[0]
SelectAgent_Last(m) == m.agent_ids[Len(m.agent_ids)]

SelectAgent(m) == m.agent_ids[1]

\* The conditions under which one iteration of execute_all's loop calls
\* execute_on_agent: matched, a non-empty subtask, a registered first agent.
Eligible_IgnoresRegistry(m, subtasks, reg) ==
    /\ m.matched
    /\ Len(m.agent_ids) > 0
    /\ subtasks[m.capability] # ""

Eligible(m, subtasks, reg) ==
    /\ m.matched
    /\ Len(m.agent_ids) > 0
    /\ subtasks[m.capability] # ""
    /\ registry_has(reg, SelectAgent(m))

\* Index of the first match at or after i on which the loop calls
\* execute_on_agent; 0 when the loop runs to its end.
NextEligible(matches, subtasks, reg, i) ==
    LET S == {j \in i..Len(matches) : Eligible(matches[j], subtasks, reg)}
    IN  IF S = {} THEN 0 ELSE CHOOSE j \in S : \A k \in S : j <= k

\* ExecutionResult built on the success path of execute_on_agent.
SuccessExecution(agent, capability, subtask, content) ==
    [agent_id    |-> agent,
     capability  |-> capability,
     input_text  |-> subtask,
     output_text |-> content,
     success     |-> TRUE,
     error       |-> None]

\* ExecutionResult built in the except branch of execute_on_agent.
FailedExecution_KeepsSuccess(agent, capability, subtask, msg) ==
    [agent_id    |-> agent,
     capability  |-> capability,
     input_text  |-> subtask,
     output_text |-> "",
     success     |-> TRUE,
     error       |-> Some(msg)]

FailedExecution(agent, capability, subtask, msg) ==
    [agent_id    |-> agent,
     capability  |-> capability,
     input_text  |-> subtask,
     output_text |-> "",
     success     |-> FALSE,
     error       |-> Some(msg)]

----------------------------------------------------------------------------
(* Synthesis policy *)

\* successful = [e for e in executions if e.success]
Successful(executions) == SelectSeq(executions, LAMBDA e : e.success)

\* len(successful) > 1, the test of SmartRouter.route
NeedsSynthesis_AtLeastOne(executions) == Len(Successful(executions)) >= 1

NeedsSynthesis(executions) == Len(Successful(executions)) > 1

\* should_synthesize, the conditional edge after the execute node
should_synthesize_CountsAllExecutions(state) ==
    IF Len(state.executions) > 1 THEN "synthesize" ELSE "end"

should_synthesize(state) ==
    IF Len(Successful(state.executions)) > 1 THEN "synthesize" ELSE "end"

\* What the synthesizer returns for the executions it is given.
SynthesisOf(executions) ==
    [synthesized_output |-> "synthesized",
     sources |-> [i \in 1..Len(Successful(executions)) |->
                     Successful(executions)[i].agent_id]]

\* final_output of route when synthesis is skipped
DirectOutput_FirstExecution(executions) ==
    IF Len(Successful(executions)) > 0
    THEN executions[1].output_text
    ELSE "All executions failed."

DirectOutput(executions) ==
    IF Len(Successful(executions)) > 0
    THEN Successful(executions)[1].output_text
    ELSE "All executions failed."

----------------------------------------------------------------------------
(* State *)

VARIABLES
    orch,       \* which orchestrator handles the task: "router" or "graph"
    handler,    \* event_handler of SmartRouter/TaskExecutor: "none" or "ok"
    registry,   \* AgentRegistry._agents, identifiers in insertion order
    pc,         \* position of the orchestrator's coroutine
    result,     \* the RouterResult / GraphState being built
    results,    \* the local list `results` of execute_all
    idx,        \* index of the next match execute_all's loop looks at
    cur,        \* index of the match whose agent call is awaited (0: none)
    calls,      \* log of agent calls: started and resolved, in order
    synthArgs,  \* the execution lists the synthesizer was invoked with
    events,     \* events handed to the sink, in order
    escaped,    \* the step whose exception reached the orchestrator, and its message
    tracked,    \* GraphRunner._tasks[task_id]
    directCalls, \* the calls made directly on a component, with their values
    chain,      \* ChainPipeline.run: its agents, locals and result
    stream,     \* GraphRunner.stream: the event queue and its consumer
    wiring,     \* the module-level references of graph/nodes.py, and the runners built
    research,   \* OrchestratorAgent.research: its search tasks and its result
    pipelines,  \* protocol/chain_router.py: the stores of one pipeline id and its clients
    storage     \* MemoryStorage / FileStorage: the conversations, the lock, the callers

\* the state of the components a routing task does not touch, and the
\* wiring of the graph nodes, which no task changes
componentVars ==
    <<directCalls, chain, stream, wiring, research, pipelines, storage>>

vars == <<orch, handler, registry, pc, result, results, idx, cur, calls,
          synthArgs, events, escaped, tracked, componentVars>>

\* no direct call has been made; no pipeline, stream or research has been
\* started and no storage is in use
ComponentsIdle ==
    /\ directCalls = <<>>
    /\ chain = None
    /\ stream = None
    /\ research = None
    /\ pipelines = None
    /\ storage = None

\* The registry a second GraphRunner is constructed with.
OtherRegistry == <<"multi">>

\* nodes.py as imported: no reference is set, and no runner has been built
NotWired ==
    [registry    |-> None,
     executor    |-> None,
     analyzer    |-> None,
     synthesizer |-> None,
     runners     |-> {}]

\* build_router_graph for the runner `owner`, whose registry holds reg and
\* whose storage is an object: `if registry:` is false for a registry
\* without agents, because AgentRegistry defines __len__
build_router_graph(w, owner, reg) ==
    LET w1 == IF reg # <<>>
              THEN [w EXCEPT !.registry = Some(owner),
                             !.executor = Some(owner)]
              ELSE w
    IN  [w1 EXCEPT !.analyzer = Some(owner), !.synthesizer = Some(owner)]

\* GraphRunner.__init__
GraphRunnerInit(w, owner, reg) ==
    [build_router_graph(w, owner, reg) EXCEPT !.runners = @ \cup {owner}]

\* AgentRegistry._agents of the registry a runner was constructed with
RegistryOf(owner) == IF owner = "self" THEN registry ELSE OtherRegistry

\* `not registry` in discover_node: no reference is set, or the registry it
\* refers to holds no agent
NoRegistry ==
    IF wiring.registry = None THEN TRUE
    ELSE RegistryOf(wiring.registry[1]) = <<>>

\* AgentRegistry._agents of get_registry()
NodeRegistry == RegistryOf(wiring.registry[1])

\* AgentRegistry._agents of executor.registry: the registry of the router's
\* executor, or of the executor get_executor() returns
ExecutorRegistry ==
    IF orch = "graph" THEN RegistryOf(wiring.executor[1]) ELSE registry

\* a task of the graph runs on a runner constructed, alone, with the
\* registry; the router does not touch nodes.py
WiredAtStart ==
    wiring = IF orch = "graph"
             THEN GraphRunnerInit(NotWired, "self", registry)
             ELSE NotWired

\* RouterResult defaults (models.py) / create_initial_state (state.py)
InitialResult ==
    [status       |-> "pending",
     final_output |-> "",
     error        |-> None,
     detected     |-> <<>>,
     subtasks     |-> [c \in Capabilities |-> ""],
     dependencies |-> None,
     matches      |-> <<>>,
     executions   |-> <<>>,
     synthesis    |-> None]

Init ==
    /\ orch \in {"router", "graph"}
    /\ handler \in (IF orch = "router" THEN {"none", "ok"} ELSE {"none"})
    /\ registry \in RegistryContents
    /\ pc = "start"
    /\ result = InitialResult
    /\ results = <<>>
    /\ idx = 0
    /\ cur = 0
    /\ calls = <<>>
    /\ synthArgs = <<>>
    /\ events = <<>>
    /\ escaped = [step |-> "none", msg |-> ""]
    /\ tracked = [status |-> "none", error |-> None]
    /\ ComponentsIdle
    /\ WiredAtStart

\* SmartRouter._emit_event / TaskExecutor._emit_event: the handler is called
\* only if one is configured.
Emit(evs, new) == IF handler = "none" THEN evs ELSE evs \o new

\* The analyses an analyzer can return: a list of capability tags and a
\* subtask text for some of them.
AnalysisSubtasks(S) == [c \in Capabilities |-> IF c \in S THEN SubtaskText(c) ELSE ""]

----------------------------------------------------------------------------
(* SmartRouter.route *)

\* except Exception as e: status failed, error str(e), everything else kept
FailedResult_Reset(res, msg) ==
    [InitialResult EXCEPT !.status = "failed", !.error = Some(msg)]

FailedResult(res, msg) ==
    [res EXCEPT !.status = "failed", !.error = Some(msg)]

\* route up to the await of analyzer.analyze
RouteStart ==
    /\ orch = "router"
    /\ pc = "start"
    /\ result' = [result EXCEPT !.status = "analyzing"]
    /\ events' = Emit(events, <<Ev("routing_started", "", "", ""),
                                Ev("analysis_started", "", "", "")>>)
    /\ pc' = "analyze"
    /\ UNCHANGED <<orch, handler, registry, results, idx, cur, calls,
                   synthArgs, escaped, tracked>>
    /\ UNCHANGED componentVars

\* analyzer.analyze returns: the analysis is stored; with no capability the
\* task completes at once, otherwise discovery begins
RouteAnalyzeReturn ==
    /\ orch = "router"
    /\ pc = "analyze"
    /\ \E detected \in SeqsUpTo(Capabilities, MaxDetected) :
       \E S \in SUBSET Range(detected) :
          LET analysed == [result EXCEPT !.detected = detected,
                                         !.subtasks = AnalysisSubtasks(S)]
          IN  IF detected = <<>>
              THEN /\ result' = [analysed EXCEPT
                        !.status = "completed",
                        !.final_output = "No capabilities detected for this task."]
                   /\ events' = Emit(events,
                        <<Ev("analysis_completed", "", "", ""),
                          Ev("routing_completed", "completed", "", "")>>)
                   /\ pc' = "done"
              ELSE /\ result' = [analysed EXCEPT !.status = "discovering"]
                   /\ events' = Emit(events, <<Ev("analysis_completed", "", "", "")>>)
                   /\ pc' = "discover"
    /\ UNCHANGED <<orch, handler, registry, results, idx, cur, calls,
                   synthArgs, escaped, tracked>>
    /\ UNCHANGED componentVars

\* an exception leaves analyzer.analyze
RouteAnalyzeRaise ==
    /\ orch = "router"
    /\ pc = "analyze"
    /\ \E msg \in Messages :
          /\ result' = FailedResult(result, msg)
          /\ events' = Emit(events, <<Ev("routing_completed", "failed", msg, "")>>)
          /\ escaped' = [step |-> "analysis", msg |-> msg]
    /\ pc' = "done"
    /\ UNCHANGED <<orch, handler, registry, results, idx, cur, calls,
                   synthArgs, tracked>>
    /\ UNCHANGED componentVars

\* discovery_started / discovery_completed of every detected capability
DiscoveryEvents_StartedThenCompleted(matches) ==
    [k \in 1..Len(matches) |->
        Ev("discovery_started", matches[k].capability, "", "")]
    \o [k \in 1..Len(matches) |->
        Ev("discovery_completed", matches[k].capability,
           BoolText(matches[k].matched), "")]

DiscoveryEvents(matches) ==
    [k \in 1..(2 * Len(matches)) |->
        LET m == matches[(k + 1) \div 2]
        IN  IF k % 2 = 1
            THEN Ev("discovery_started", m.capability, "", "")
            ELSE Ev("discovery_completed", m.capability, BoolText(m.matched), "")]

\* result after the discovery loop: the matches are stored; the task
\* completes if no capability matched and moves on to execution otherwise
DiscoveredResult_StatusNotSet(res, matches) ==
    IF AnyMatched(matches)
    THEN [res EXCEPT !.matches = matches]
    ELSE [res EXCEPT
            !.matches = matches,
            !.status = "completed",
            !.final_output = "No agents found for required capabilities."]

DiscoveredResult(res, matches) ==
    IF AnyMatched(matches)
    THEN [res EXCEPT !.matches = matches, !.status = "executing"]
    ELSE [res EXCEPT
            !.matches = matches,
            !.status = "completed",
            !.final_output = "No agents found for required capabilities."]

\* the discovery loop and the check that some capability matched
RouteDiscover ==
    /\ orch = "router"
    /\ pc = "discover"
    /\ LET matches == Discover(registry, result.detected)
       IN  IF AnyMatched(matches)
           THEN /\ result' = DiscoveredResult(result, matches)
                /\ events' = Emit(events, DiscoveryEvents(matches))
                /\ results' = <<>>
                /\ idx' = 1
                /\ pc' = "exec"
           ELSE /\ result' = DiscoveredResult(result, matches)
                /\ events' = Emit(events, DiscoveryEvents(matches)
                                 \o <<Ev("routing_completed", "completed", "", "")>>)
                /\ pc' = "done"
                /\ UNCHANGED <<results, idx>>
    /\ UNCHANGED <<orch, handler, registry, cur, calls, synthArgs, escaped,
                   tracked>>
    /\ UNCHANGED componentVars

----------------------------------------------------------------------------
(* TaskExecutor.execute_all and execute_on_agent, called by both             *)
(* orchestrators                                                             *)

CallStarted(m) ==
    [kind |-> "start", capability |-> m.capability, agent |-> SelectAgent(m),
     ok |-> TRUE, msg |-> ""]

CallResolved(m, ok, msg) ==
    [kind |-> "end", capability |-> m.capability, agent |-> SelectAgent(m),
     ok |-> ok, msg |-> msg]

\* execute_all's loop from match idx on: the matches that are not eligible
\* are passed over; on the first eligible one execute_on_agent is entered,
\* emits execution_started and awaits agent.receive_message; with none left
\* execute_all returns
ExecuteAllStep ==
    /\ pc = "exec"
    /\ LET j == NextEligible(result.matches, result.subtasks,
                             ExecutorRegistry, idx)
       IN  IF j = 0
           THEN /\ pc' = "execret"
                /\ idx' = Len(result.matches) + 1
                /\ UNCHANGED <<cur, calls, events>>
           ELSE /\ pc' = "agent"
                /\ cur' = j
                /\ idx' = j
                /\ calls' = Append(calls, CallStarted(result.matches[j]))
                /\ events' = Emit(events,
                      <<Ev("execution_started", SelectAgent(result.matches[j]),
                           result.matches[j].capability, "")>>)
    /\ UNCHANGED <<orch, handler, registry, result, results, synthArgs,
                   escaped, tracked>>
    /\ UNCHANGED componentVars

\* agent.receive_message returns: a successful ExecutionResult is appended
\* and the loop goes on with the next match
AgentReturn ==
    /\ pc = "agent"
    /\ LET m == result.matches[cur]
           agent == SelectAgent(m)
       IN  /\ results' = Append(results,
                 SuccessExecution(agent, m.capability,
                                  result.subtasks[m.capability],
                                  AgentOutput(agent)))
           /\ calls' = Append(calls, CallResolved(m, TRUE, ""))
           /\ events' = Emit(events,
                 <<Ev("execution_completed", agent, m.capability, "true")>>)
    /\ idx' = cur + 1
    /\ cur' = 0
    /\ pc' = "exec"
    /\ UNCHANGED <<orch, handler, registry, result, synthArgs, escaped,
                   tracked>>
    /\ UNCHANGED componentVars

\* agent.receive_message raises: the except branch of execute_on_agent
\* appends a failed ExecutionResult and the loop goes on with the next match
AgentRaise_Propagates ==
    /\ pc = "agent"
    /\ \E msg \in Messages :
          /\ calls' = Append(calls, CallResolved(result.matches[cur], FALSE, msg))
          /\ result' = FailedResult(result, msg)
          /\ escaped' = [step |-> "execution", msg |-> msg]
    /\ pc' = "done"
    /\ UNCHANGED <<orch, handler, registry, results, idx, cur, synthArgs,
                   events, tracked>>
    /\ UNCHANGED componentVars

AgentRaise_NoCompletionEvent ==
    /\ pc = "agent"
    /\ \E msg \in Messages :
       LET m == result.matches[cur]
           agent == SelectAgent(m)
       IN  /\ results' = Append(results,
                 FailedExecution(agent, m.capability,
                                 result.subtasks[m.capability], msg))
           /\ calls' = Append(calls, CallResolved(m, FALSE, msg))
    /\ idx' = cur + 1
    /\ cur' = 0
    /\ pc' = "exec"
    /\ UNCHANGED <<orch, handler, registry, result, synthArgs, events,
                   escaped, tracked>>
    /\ UNCHANGED componentVars

AgentRaise ==
    /\ pc = "agent"
    /\ \E msg \in Messages :
       LET m == result.matches[cur]
           agent == SelectAgent(m)
       IN  /\ results' = Append(results,
                 FailedExecution(agent, m.capability,
                                 result.subtasks[m.capability], msg))
           /\ calls' = Append(calls, CallResolved(m, FALSE, msg))
           /\ events' = Emit(events,
                 <<Ev("execution_completed", agent, m.capability, "false")>>)
    /\ idx' = cur + 1
    /\ cur' = 0
    /\ pc' = "exec"
    /\ UNCHANGED <<orch, handler, registry, result, synthArgs, escaped,
                   tracked>>
    /\ UNCHANGED componentVars

----------------------------------------------------------------------------
(* SmartRouter.route, after execute_all has returned *)

\* the executions are stored; with more than one success the synthesizer is
\* called, otherwise the task completes with the direct output
RouteDecide ==
    /\ orch = "router"
    /\ pc = "execret"
    /\ IF NeedsSynthesis(results)
       THEN /\ result' = [result EXCEPT !.executions = results,
                                        !.status = "synthesizing"]
            /\ synthArgs' = Append(synthArgs, Successful(results))
            /\ events' = Emit(events, <<Ev("synthesis_started", "", "", "")>>)
            /\ pc' = "synth"
       ELSE /\ result' = [result EXCEPT !.executions = results,
                                        !.final_output = DirectOutput(results),
                                        !.status = "completed"]
            /\ events' = Emit(events,
                  <<Ev("routing_completed", "completed", "", "")>>)
            /\ pc' = "done"
            /\ UNCHANGED synthArgs
    /\ UNCHANGED <<orch, handler, registry, results, idx, cur, calls,
                   escaped, tracked>>
    /\ UNCHANGED componentVars

\* synthesizer.synthesize returns
RouteSynthReturn ==
    /\ orch = "router"
    /\ pc = "synth"
    /\ LET synthesis == SynthesisOf(synthArgs[Len(synthArgs)])
       IN  result' = [result EXCEPT
                !.synthesis = Some(synthesis),
                !.final_output = synthesis.synthesized_output,
                !.status = "completed"]
    /\ events' = Emit(events, <<Ev("synthesis_completed", "", "", ""),
                                Ev("routing_completed", "completed", "", "")>>)
    /\ pc' = "done"
    /\ UNCHANGED <<orch, handler, registry, results, idx, cur, calls,
                   synthArgs, escaped, tracked>>
    /\ UNCHANGED componentVars

\* an exception leaves synthesizer.synthesize
RouteSynthRaise ==
    /\ orch = "router"
    /\ pc = "synth"
    /\ \E msg \in Messages :
          /\ result' = FailedResult(result, msg)
          /\ events' = Emit(events, <<Ev("routing_completed", "failed", msg, "")>>)
          /\ escaped' = [step |-> "synthesis", msg |-> msg]
    /\ pc' = "done"
    /\ UNCHANGED <<orch, handler, registry, results, idx, cur, calls,
                   synthArgs, tracked>>
    /\ UNCHANGED componentVars

----------------------------------------------------------------------------
(* The LangGraph variant: GraphRunner.run driving analyze -> discover ->     *)
(* execute -> (synthesize), with the collaborators that build_router_graph   *)
(* wires in                                                                  *)

\* stream_writer of GraphRunner.run: every event is queued
GraphEmit(evs, new) == evs \o new

\* The dependency maps an analysis can carry (capability -> prerequisites):
\* none, one prerequisite edge between two detected capabilities, or two
\* capabilities that require each other.
NoDependencies == [c \in Capabilities |-> {}]

DependencyChoices(detected) ==
    {None}
    \cup {Some([NoDependencies EXCEPT ![b] = {a}]) :
            <<a, b>> \in {p \in Range(detected) \X Range(detected) : p[1] # p[2]}}
    \cup {Some([NoDependencies EXCEPT ![b] = {a}, ![a] = {b}]) :
            <<a, b>> \in {p \in Range(detected) \X Range(detected) : p[1] # p[2]}}

\* hasattr(executor, 'execute_with_dependencies'): TaskExecutor defines
\* execute_on_agent and execute_all only
HasExecuteWithDependencies == FALSE

\* the test of execute_node that selects dependency-ordered execution
UsesDependencyOrdering(state) ==
    state.dependencies # None /\ HasExecuteWithDependencies

\* GraphRunner.run up to the await of analyzer.analyze in analyze_node
GraphStart ==
    /\ orch = "graph"
    /\ "self" \in wiring.runners
    /\ pc = "start"
    /\ tracked' = [tracked EXCEPT !.status = "running"]
    /\ events' = GraphEmit(events,
          <<Ev("execution_started", "", "", ""),
            Ev("add_node", "analyze", "running", "")>>)
    /\ pc' = "analyze"
    /\ UNCHANGED <<orch, handler, registry, result, results, idx, cur, calls,
                   synthArgs, escaped>>
    /\ UNCHANGED componentVars

\* the edge to a capability emitted before the node of the capability
CapabilityNodeEvents_EdgeFirst(detected) ==
    [k \in 1..(2 * Len(detected)) |->
        LET c == detected[(k + 1) \div 2]
        IN  IF k % 2 = 0
            THEN Ev("add_node", "cap_" \o c, "pending", "")
            ELSE Ev("add_edge", "analyze", "cap_" \o c, "")]

\* add_node / add_edge of every detected capability
CapabilityNodeEvents(detected) ==
    [k \in 1..(2 * Len(detected)) |->
        LET c == detected[(k + 1) \div 2]
        IN  IF k % 2 = 1
            THEN Ev("add_node", "cap_" \o c, "pending", "")
            ELSE Ev("add_edge", "analyze", "cap_" \o c, "")]

\* analyzer.analyze returns in analyze_node
GraphAnalyzeReturn ==
    /\ orch = "graph"
    /\ pc = "analyze"
    /\ \E detected \in SeqsUpTo(Capabilities, MaxDetected) :
       \E S \in SUBSET Range(detected) :
       \E deps \in DependencyChoices(detected) :
          /\ result' = [result EXCEPT
                !.detected = result.detected \o detected,
                !.subtasks = AnalysisSubtasks(S),
                !.dependencies = deps,
                !.status = "analyzed"]
          /\ events' = GraphEmit(events,
                <<Ev("update_node", "analyze", "completed", "")>>
                \o CapabilityNodeEvents(detected))
    /\ pc' = "discover"
    /\ UNCHANGED <<orch, handler, registry, results, idx, cur, calls,
                   synthArgs, escaped, tracked>>
    /\ UNCHANGED componentVars

RECURSIVE MatchNodeEvents(_)
\* update_node of each capability, add_node / add_edge of each of its agents
MatchNodeEvents(matches) ==
    IF matches = <<>> THEN <<>>
    ELSE LET m == Head(matches)
         IN  <<Ev("update_node", "cap_" \o m.capability,
                  IF Len(m.agent_ids) > 0 THEN "matched" ELSE "unmatched", "")>>
             \o [k \in 1..(2 * Len(m.agent_ids)) |->
                   LET a == m.agent_ids[(k + 1) \div 2]
                   IN  IF k % 2 = 1
                       THEN Ev("add_node", "agent_" \o a, "pending", "")
                       ELSE Ev("add_edge", "cap_" \o m.capability, "agent_" \o a, "")]
             \o MatchNodeEvents(Tail(matches))

\* discover_node: without a registry, or with one that holds no agent, the
\* node fails with no match at all
GraphDiscover ==
    /\ orch = "graph"
    /\ pc = "discover"
    /\ IF NoRegistry
       THEN /\ result' = [result EXCEPT !.matches = <<>>,
                                        !.status = "failed"]
            /\ events' = GraphEmit(events,
                  <<Ev("add_node", "discover", "running", ""),
                    Ev("add_edge", "analyze", "discover", ""),
                    Ev("update_node", "discover", "failed", "")>>)
       ELSE LET matches == Discover(NodeRegistry, result.detected)
            IN  /\ result' = [result EXCEPT !.matches = matches,
                                            !.status = "discovered"]
                /\ events' = GraphEmit(events,
                      <<Ev("add_node", "discover", "running", ""),
                        Ev("add_edge", "analyze", "discover", "")>>
                      \o MatchNodeEvents(matches)
                      \o <<Ev("update_node", "discover", "completed", "")>>)
    /\ pc' = "execute"
    /\ UNCHANGED <<orch, handler, registry, results, idx, cur, calls,
                   synthArgs, escaped, tracked>>
    /\ UNCHANGED componentVars

\* execute_node up to the call of the executor: without an executor the
\* node fails and the graph ends; otherwise execute_all is called unless
\* dependency ordering is selected
GraphExecuteStart ==
    /\ orch = "graph"
    /\ pc = "execute"
    /\ ~UsesDependencyOrdering(result)
    /\ IF wiring.executor = None
       THEN /\ events' = GraphEmit(events,
                  <<Ev("add_node", "execute", "running", ""),
                    Ev("add_edge", "discover", "execute", ""),
                    Ev("update_node", "execute", "failed", "")>>)
            /\ result' = [result EXCEPT !.status = "failed"]
            /\ pc' = IF should_synthesize(result') = "synthesize"
                     THEN "synthesize" ELSE "end"
            /\ UNCHANGED <<results, idx>>
       ELSE /\ events' = GraphEmit(events,
                  <<Ev("add_node", "execute", "running", ""),
                    Ev("add_edge", "discover", "execute", "")>>)
            /\ results' = <<>>
            /\ idx' = 1
            /\ pc' = "exec"
            /\ UNCHANGED result
    /\ UNCHANGED <<orch, handler, registry, cur, calls, synthArgs,
                   escaped, tracked>>
    /\ UNCHANGED componentVars

\* update_node of the agent of every execution
ExecutionNodeEvents(executions) ==
    [k \in 1..Len(executions) |->
        Ev("update_node", "agent_" \o executions[k].agent_id,
           IF executions[k].success THEN "completed" ELSE "failed", "")]

\* final_output of execute_node: the output of the only success, if any
SingleOutput(executions) ==
    IF Len(Successful(executions)) = 1
    THEN Successful(executions)[1].output_text
    ELSE ""

\* execute_node after the executor has returned, and the conditional edge
\* that follows it
GraphExecuteEnd ==
    /\ orch = "graph"
    /\ pc = "execret"
    /\ result' = [result EXCEPT
          !.executions = result.executions \o results,
          !.final_output = SingleOutput(results),
          !.status = "executed"]
    /\ events' = GraphEmit(events,
          ExecutionNodeEvents(results)
          \o <<Ev("update_node", "execute", "completed", "")>>)
    /\ pc' = IF should_synthesize(result') = "synthesize"
             THEN "synthesize" ELSE "end"
    /\ UNCHANGED <<orch, handler, registry, results, idx, cur, calls,
                   synthArgs, escaped, tracked>>
    /\ UNCHANGED componentVars

\* add_edge from the agent of every successful execution to synthesize
SynthesisEdgeEvents(successful) ==
    [k \in 1..Len(successful) |->
        Ev("add_edge", "agent_" \o successful[k].agent_id, "synthesize", "")]

\* synthesize_node up to the await of synthesizer.synthesize
GraphSynthesizeStart ==
    /\ orch = "graph"
    /\ pc = "synthesize"
    /\ synthArgs' = Append(synthArgs, Successful(result.executions))
    /\ events' = GraphEmit(events,
          <<Ev("add_node", "synthesize", "running", "")>>
          \o SynthesisEdgeEvents(Successful(result.executions)))
    /\ pc' = "synth"
    /\ UNCHANGED <<orch, handler, registry, result, results, idx, cur, calls,
                   escaped, tracked>>
    /\ UNCHANGED componentVars

\* synthesizer.synthesize returns in synthesize_node
GraphSynthReturn ==
    /\ orch = "graph"
    /\ pc = "synth"
    /\ LET synthesis == SynthesisOf(synthArgs[Len(synthArgs)])
       IN  result' = [result EXCEPT
                !.synthesis = Some(synthesis),
                !.final_output = synthesis.synthesized_output,
                !.status = "completed"]
    /\ events' = GraphEmit(events,
          <<Ev("update_node", "synthesize", "completed", "")>>)
    /\ pc' = "end"
    /\ UNCHANGED <<orch, handler, registry, results, idx, cur, calls,
                   synthArgs, escaped, tracked>>
    /\ UNCHANGED componentVars

\* GraphRunner.run after graph.ainvoke has returned
GraphEnd ==
    /\ orch = "graph"
    /\ pc = "end"
    /\ result' = [result EXCEPT !.status = "completed"]
    /\ tracked' = [tracked EXCEPT !.status = "completed"]
    /\ events' = GraphEmit(events, <<Ev("execution_completed", "completed", "", "")>>)
    /\ pc' = "done"
    /\ UNCHANGED <<orch, handler, registry, results, idx, cur, calls,
                   synthArgs, escaped>>
    /\ UNCHANGED componentVars

\* the state GraphRunner.run returns from its except branch: initial_state
\* with status and final_output overwritten
GraphFailedState(msg) ==
    [InitialResult EXCEPT !.status = "failed",
                          !.final_output = "Error: " \o msg]

\* an exception leaves analyzer.analyze and with it graph.ainvoke
GraphAnalyzeRaise ==
    /\ orch = "graph"
    /\ pc = "analyze"
    /\ \E msg \in Messages :
          /\ tracked' = [status |-> "failed", error |-> Some(msg)]
          /\ events' = GraphEmit(events, <<Ev("execution_failed", msg, "", "")>>)
          /\ result' = GraphFailedState(msg)
          /\ escaped' = [step |-> "analysis", msg |-> msg]
    /\ pc' = "done"
    /\ UNCHANGED <<orch, handler, registry, results, idx, cur, calls,
                   synthArgs>>
    /\ UNCHANGED componentVars

\* an exception leaves synthesizer.synthesize and with it graph.ainvoke
GraphSynthRaise ==
    /\ orch = "graph"
    /\ pc = "synth"
    /\ \E msg \in Messages :
          /\ tracked' = [status |-> "failed", error |-> Some(msg)]
          /\ events' = GraphEmit(events, <<Ev("execution_failed", msg, "", "")>>)
          /\ result' = GraphFailedState(msg)
          /\ escaped' = [step |-> "synthesis", msg |-> msg]
    /\ pc' = "done"
    /\ UNCHANGED <<orch, handler, registry, results, idx, cur, calls,
                   synthArgs>>
    /\ UNCHANGED componentVars

----------------------------------------------------------------------------
(* Specification *)

Next ==
    \/ RouteStart
    \/ RouteAnalyzeReturn
    \/ RouteAnalyzeRaise
    \/ RouteDiscover
    \/ ExecuteAllStep
    \/ AgentReturn
    \/ AgentRaise
    \/ RouteDecide
    \/ RouteSynthReturn
    \/ RouteSynthRaise
    \/ GraphStart
    \/ GraphAnalyzeReturn
    \/ GraphAnalyzeRaise
    \/ GraphDiscover
    \/ GraphExecuteStart
    \/ GraphExecuteEnd
    \/ GraphSynthesizeStart
    \/ GraphSynthReturn
    \/ GraphSynthRaise
    \/ GraphEnd

Spec == Init /\ [][Next]_vars

TypeOK ==
    /\ orch \in {"router", "graph"}
    /\ handler \in {"none", "ok"}
    /\ registry \in RegistryContents
    /\ idx \in 0..(MaxDetected + 1)
    /\ cur \in 0..MaxDetected
    /\ Len(results) <= MaxDetected
    /\ Len(synthArgs) <= 1

----------------------------------------------------------------------------
(* Observations the properties are stated over *)

\* the agent calls that have resolved, in the order they resolved
ResolvedCalls == SelectSeq(calls, LAMBDA c : c.kind = "end")

\* the agent calls that have been started, in the order they started
StartedCalls == SelectSeq(calls, LAMBDA c : c.kind = "start")

\* the agent calls that returned
ReturnedCalls == SelectSeq(calls, LAMBDA c : c.kind = "end" /\ c.ok)

\* the matches execute_all is meant to execute: matched, with subtask text
EligibleMatches ==
    SelectSeq(result.matches,
              LAMBDA m : m.matched /\ result.subtasks[m.capability] # "")

\* execute_all has returned to its orchestrator
ExecuteAllReturned ==
    /\ orch = "graph" => wiring.executor # None
    /\ \/ pc \in {"execret", "synth", "synthesize", "end"}
       \/ (pc = "done" /\ result.matches # <<>> /\ AnyMatched(result.matches))

\* number of entries among the first n of the call log that are starts
StartsBefore(n) == Cardinality({i \in 1..n : calls[i].kind = "start"})

----------------------------------------------------------------------------
(* Properties *)

\* C1: when a task has finished, the synthesizer has been invoked if and only
\* if more than one agent execution succeeded, in SmartRouter.route and behind
\* the graph's should_synthesize edge alike, whatever number of capabilities
\* was detected or matched; it is never invoked twice, it is never invoked
\* with fewer than two successes behind it, and a completed task carries a
\* synthesis record exactly when it was invoked.
C1_SynthesisIffMultipleSuccesses ==
    /\ Len(synthArgs) <= 1
    /\ Len(synthArgs) = 1 => Len(ReturnedCalls) > 1
    /\ pc = "done" => (Len(synthArgs) = 1 <=> Len(ReturnedCalls) > 1)
    /\ pc = "done" /\ result.status = "completed"
          => (result.synthesis # None <=> Len(ReturnedCalls) > 1)

\* C1 witness: a finished task with two successful executions, one
\* synthesizer call and a synthesis record
C1_Witness ==
    /\ pc = "done"
    /\ Len(ReturnedCalls) = 2
    /\ Len(synthArgs) = 1
    /\ result.synthesis # None

\* C2: in SmartRouter.route, an analysis with no capability ends the task as
\* completed with the no-capabilities message, no match and no execution; an
\* analysis none of whose capabilities has a registered agent ends it as
\* completed with the no-agents message; in both cases no agent and no
\* synthesizer is ever invoked.
C2_ShortCircuit ==
    orch = "router" /\ pc \notin {"start", "analyze"} /\ escaped.step # "analysis"
    =>
    /\ result.detected = <<>> =>
          /\ pc = "done"
          /\ result.status = "completed"
          /\ result.final_output = "No capabilities detected for this task."
          /\ result.matches = <<>>
          /\ result.executions = <<>>
          /\ calls = <<>>
          /\ synthArgs = <<>>
    /\ ( /\ result.detected # <<>>
         /\ pc # "discover"
         /\ \A i \in 1..Len(result.detected) :
               find_by_capability(registry, result.detected[i]) = <<>> ) =>
          /\ pc = "done"
          /\ result.status = "completed"
          /\ result.final_output = "No agents found for required capabilities."
          /\ result.executions = <<>>
          /\ calls = <<>>
          /\ synthArgs = <<>>

\* C2 witness: a route that ended because no detected capability has an agent
C2_Witness ==
    /\ orch = "router"
    /\ pc = "done"
    /\ result.detected # <<>>
    /\ result.final_output = "No agents found for required capabilities."

\* C3: when SmartRouter.route has executed and the synthesizer was not
\* invoked, the task is completed without a synthesis record; its final
\* output is the output of the one agent call that returned, or the
\* all-executions-failed message when no call returned.
C3_DirectOutput ==
    ( /\ orch = "router"
      /\ pc = "done"
      /\ AnyMatched(result.matches)
      /\ synthArgs = <<>> )
    =>
    /\ result.status = "completed"
    /\ result.synthesis = None
    /\ Len(ReturnedCalls) <= 1
    /\ Len(ReturnedCalls) = 1 =>
          result.final_output = AgentOutput(ReturnedCalls[1].agent)
    /\ Len(ReturnedCalls) = 0 =>
          result.final_output = "All executions failed."

\* C3 witness: a route finished with a failed execution followed by the only
\* successful one
C3_Witness ==
    /\ orch = "router"
    /\ pc = "done"
    /\ Len(ResolvedCalls) = 2
    /\ ~ResolvedCalls[1].ok
    /\ ResolvedCalls[2].ok
    /\ result.final_output = AgentOutput(ResolvedCalls[2].agent)

\* the status changes SmartRouter.route may make
RouteStatusSteps ==
    {<<"pending", "analyzing">>,
     <<"analyzing", "discovering">>,
     <<"discovering", "executing">>,
     <<"executing", "synthesizing">>,
     <<"analyzing", "completed">>,
     <<"discovering", "completed">>,
     <<"executing", "completed">>,
     <<"synthesizing", "completed">>}
    \cup {<<s, "failed">> :
            s \in {"pending", "analyzing", "discovering", "executing", "synthesizing"}}

\* C4: every change of the task status made by SmartRouter.route is one of
\* the forward steps pending -> analyzing -> discovering -> executing ->
\* synthesizing -> completed, a completion from analyzing, discovering or
\* executing, or a failure from a non-terminal status; completed and failed
\* are never left.
C4_StatusMovesForward ==
    [][orch = "router" =>
          \/ result'.status = result.status
          \/ <<result.status, result'.status>> \in RouteStatusSteps]_vars

\* C4 witness: a route that went through synthesis and completed
C4_Witness ==
    /\ orch = "router"
    /\ pc = "done"
    /\ result.status = "completed"
    /\ result.synthesis # None

\* C5: when an exception leaves a step of SmartRouter.route, route still
\* returns a result: its status is failed, its error is the exception's
\* message, and what the earlier phases produced (analysis, matches,
\* executions) is still in it.
C5_FailurePreservesPartialResult ==
    orch = "router" /\ escaped.step # "none"
    =>
    /\ pc = "done"
    /\ result.status = "failed"
    /\ result.error = Some(escaped.msg)
    /\ escaped.step = "synthesis" =>
          /\ result.detected # <<>>
          /\ Len(result.matches) = Len(result.detected)
          /\ \A i \in 1..Len(result.detected) :
                /\ result.matches[i].capability = result.detected[i]
                /\ result.matches[i].agent_ids =
                      find_by_capability(registry, result.detected[i])
          /\ Len(result.executions) = Len(ResolvedCalls)
          /\ \A k \in 1..Len(ResolvedCalls) :
                /\ result.executions[k].agent_id = ResolvedCalls[k].agent
                /\ result.executions[k].success = ResolvedCalls[k].ok

\* C5 witness: a route whose synthesizer raised
C5_Witness ==
    /\ orch = "router"
    /\ pc = "done"
    /\ escaped.step = "synthesis"
    /\ Len(result.executions) = 2

\* C6: every agent call that has resolved has produced exactly one
\* ExecutionResult, in order: a call that raised gives success false, empty
\* output text and the exception's message as error; a call that returned
\* gives success true, the agent's content as output and no error; hence
\* error is set exactly on the unsuccessful results.
C6_ExecuteOnAgentAlwaysReturns ==
    /\ pc # "agent" => Len(results) = Len(ResolvedCalls)
    /\ pc = "agent" => Len(results) + 1 = Len(StartedCalls)
    /\ \A k \in 1..Len(results) :
          /\ k <= Len(ResolvedCalls)
          /\ results[k].agent_id = ResolvedCalls[k].agent
          /\ results[k].capability = ResolvedCalls[k].capability
          /\ ResolvedCalls[k].ok =>
                /\ results[k].success
                /\ results[k].output_text = AgentOutput(ResolvedCalls[k].agent)
                /\ results[k].error = None
          /\ ~ResolvedCalls[k].ok =>
                /\ ~results[k].success
                /\ results[k].output_text = ""
                /\ results[k].error = Some(ResolvedCalls[k].msg)
          /\ (results[k].error # None) <=> ~results[k].success

\* C6 witness: an agent call raised and its failed result has been recorded
C6_Witness ==
    /\ Len(results) >= 1
    /\ ~results[1].success
    /\ results[1].error = Some("boom")

\* C7, as claimed: after execute_all, there is one result per eligible
\* capability, exactly the calls that raised have success false and these
\* carry a non-empty error, and the task does not fail because of them.
C7_FailureIsolation_NonEmptyError ==
    ExecuteAllReturned =>
    /\ Len(results) = Len(EligibleMatches)
    /\ Len(ResolvedCalls) = Len(EligibleMatches)
    /\ \A k \in 1..Len(results) :
          /\ results[k].success <=> ResolvedCalls[k].ok
          /\ ~results[k].success =>
                results[k].error # None /\ results[k].error # Some("")
    /\ escaped.step = "none" => result.status # "failed"
    /\ escaped.step = "none" /\ pc = "done" => result.status = "completed"

\* C7, amended: after execute_all, there is one result per eligible
\* capability, every eligible capability's agent has been called whether or
\* not another call raised, exactly the calls that raised have success false
\* and these carry the exception's message (possibly empty) as error, and
\* the task goes on to synthesizing or completed: it is failed only if the
\* analyzer or the synthesizer raised.
C7_FailureIsolation ==
    ExecuteAllReturned =>
    /\ Len(results) = Len(EligibleMatches)
    /\ Len(ResolvedCalls) = Len(EligibleMatches)
    /\ \A k \in 1..Len(results) :
          /\ results[k].capability = EligibleMatches[k].capability
          /\ results[k].success <=> ResolvedCalls[k].ok
          /\ ~results[k].success =>
                results[k].error = Some(ResolvedCalls[k].msg)
    /\ escaped.step = "none" => result.status # "failed"
    /\ escaped.step = "none" /\ pc = "done" => result.status = "completed"

\* C7 witness: the first agent raised, the second was still called and
\* returned, and the task completed
C7_Witness ==
    /\ pc = "done"
    /\ Len(ResolvedCalls) = 2
    /\ ~ResolvedCalls[1].ok
    /\ ResolvedCalls[2].ok
    /\ result.status = "completed"

C9_AllStartedBeforeAnyResolves ==
    \A i \in 1..Len(calls) :
        calls[i].kind = "end" => StartsBefore(i) = Len(EligibleMatches)

\* C10: in the graph, when the analysis carries a (cycle-free) dependency map
\* in which capability B depends on capability A, B's agent call starts only
\* after A's agent call has resolved, whatever the detection order.
C10_DependencyOrder ==
    ( /\ orch = "graph"
      /\ result.dependencies # None
      /\ \A a, b \in Capabilities :
            ~(a \in result.dependencies[1][b] /\ b \in result.dependencies[1][a]) )
    =>
    \A i, j \in 1..Len(calls) :
        ( /\ calls[i].kind = "start"
          /\ calls[j].kind = "end"
          /\ calls[j].capability \in result.dependencies[1][calls[i].capability] )
        => j < i

RECURSIVE ReachableFrom(_, _, _)
\* the capabilities reached from the set S by following at most n
\* prerequisite edges of a dependency map
ReachableFrom(deps, S, n) ==
    IF n = 0 THEN S
    ELSE ReachableFrom(deps, S \cup UNION {deps[c] : c \in S}, n - 1)

\* capability c is, directly or through others, a prerequisite of itself
OnCycle(deps, c) ==
    c \in ReachableFrom(deps, deps[c], Cardinality(Capabilities))

\* C11: in the graph, when the dependency map of the analysis contains a
\* cycle, no agent is called for a capability on the cycle (the execution
\* fails fast before any of them is attempted).
C11_CyclicDependencyFailsFast ==
    orch = "graph" /\ result.dependencies # None
    =>
    \A i \in 1..Len(calls) :
        ~OnCycle(result.dependencies[1], calls[i].capability)

----------------------------------------------------------------------------
(* An agent that never answers *)

\* agent.receive_message never completes: execute_on_agent awaits it with no
\* timeout around the await, so the coroutine stays suspended there and with
\* it execute_all and the orchestrator
AgentNeverResponds ==
    /\ pc = "agent"
    /\ pc' = "waiting"
    /\ UNCHANGED <<orch, handler, registry, result, results, idx, cur, calls,
                   synthArgs, events, escaped, tracked>>
    /\ UNCHANGED componentVars

NextUnresponsive ==
    \/ Next
    \/ AgentNeverResponds

\* The event loop runs every coroutine that can take a step.
SpecUnresponsive ==
    Init /\ [][NextUnresponsive]_vars /\ WF_vars(NextUnresponsive)

\* C12: when an agent never responds, the wait for it ends: the invocation
\* is recorded as a failed execution and the task finishes.
C12_UnresponsiveAgentTimesOut ==
    (pc = "waiting")
    ~> ( /\ pc = "done"
         /\ \E k \in 1..Len(results) : ~results[k].success )

\* C13: every list of executions an orchestrator has handed to the
\* synthesizer has at least two elements, all of them successful: they are
\* exactly the agent calls that returned, in order, and none that raised.
C13_SynthesizerInput ==
    \A k \in 1..Len(synthArgs) :
        /\ Len(synthArgs[k]) >= 2
        /\ Len(synthArgs[k]) = Len(ReturnedCalls)
        /\ \A i \in 1..Len(synthArgs[k]) :
              /\ synthArgs[k][i].success
              /\ synthArgs[k][i].error = None
              /\ i <= Len(ReturnedCalls)
              /\ synthArgs[k][i].agent_id = ReturnedCalls[i].agent
              /\ synthArgs[k][i].output_text = AgentOutput(ReturnedCalls[i].agent)

\* C13 witness: the graph's synthesize node has invoked the synthesizer with
\* the two successful executions of the task
C13_Witness ==
    /\ orch = "graph"
    /\ pc = "synth"
    /\ Len(synthArgs) = 1
    /\ Len(synthArgs[1]) = 2
    /\ synthArgs[1][1].agent_id # synthArgs[1][2].agent_id

\* the discovery phase of the task is over and its matches are in the result
DiscoveryDone ==
    /\ pc \notin {"start", "analyze", "discover"}
    /\ result.status # "failed"
    /\ result.detected # <<>>

\* C14: after discovery the matches hold exactly one CapabilityMatch for
\* every distinct detected capability and none for any other, and a match
\* is flagged matched exactly when its list of agent identifiers is not
\* empty.
C14_OneMatchPerDistinctCapability ==
    DiscoveryDone =>
    /\ \A c \in Range(result.detected) :
          Cardinality({i \in 1..Len(result.matches) :
                          result.matches[i].capability = c}) = 1
    /\ \A i \in 1..Len(result.matches) :
          /\ result.matches[i].capability \in Range(result.detected)
          /\ result.matches[i].matched <=> result.matches[i].agent_ids # <<>>

----------------------------------------------------------------------------
(* SmartRouter.route with an event handler that raises                      *)
(*                                                                          *)
(* _emit_event calls the handler with nothing around the call, so an        *)
(* exception of the handler leaves _emit_event at the place of the emit.    *)
(* A failing handler is one that raises on the events of one type and       *)
(* returns on all others; `handler` then holds that type.                   *)

\* the event types SmartRouter and TaskExecutor emit
RouterEventTypes ==
    {"routing_started", "analysis_started", "analysis_completed",
     "discovery_started", "discovery_completed", "execution_started",
     "execution_completed", "synthesis_started", "synthesis_completed",
     "routing_completed"}

\* str(e) of the exception the handler raises
SinkError == "sink_error"

InitSink ==
    /\ orch = "router"
    /\ handler \in {"none", "ok"} \cup RouterEventTypes
    /\ registry \in RegistryContents
    /\ pc = "start"
    /\ result = InitialResult
    /\ results = <<>>
    /\ idx = 0
    /\ cur = 0
    /\ calls = <<>>
    /\ synthArgs = <<>>
    /\ events = <<>>
    /\ escaped = [step |-> "none", msg |-> ""]
    /\ tracked = [status |-> "none", error |-> None]
    /\ ComponentsIdle
    /\ WiredAtStart

\* the handler returned on every event handed to it in this step
SinkReturned ==
    \A i \in (Len(events) + 1)..Len(events') : events'[i].type # handler

\* route's except branch, entered with the result as it is at the raise:
\* status failed, error str(e), then routing_completed is emitted; if the
\* handler raises on that event too the exception leaves route
RouteExcept(res, handed, step, msg) ==
    /\ result' = FailedResult(res, msg)
    /\ events' = handed \o <<Ev("routing_completed", "failed", msg, "")>>
    /\ escaped' = [step |-> step, msg |-> msg]
    /\ pc' = IF handler = "routing_completed" THEN "raised" ELSE "done"

\* the handler raises on routing_started, emitted before route's try
SinkRaisesAtRoutingStarted ==
    /\ pc = "start"
    /\ handler = "routing_started"
    /\ result' = [result EXCEPT !.status = "analyzing"]
    /\ events' = events \o <<Ev("routing_started", "", "", "")>>
    /\ escaped' = [step |-> "sink", msg |-> SinkError]
    /\ pc' = "raised"
    /\ UNCHANGED <<orch, handler, registry, results, idx, cur, calls,
                   synthArgs, tracked>>
    /\ UNCHANGED componentVars

\* the handler raises on analysis_started, the first emit inside the try
SinkRaisesAtAnalysisStarted ==
    /\ pc = "start"
    /\ handler = "analysis_started"
    /\ RouteExcept([result EXCEPT !.status = "analyzing"],
                   events \o <<Ev("routing_started", "", "", ""),
                               Ev("analysis_started", "", "", "")>>,
                   "sink", SinkError)
    /\ UNCHANGED <<orch, handler, registry, results, idx, cur, calls,
                   synthArgs, tracked>>
    /\ UNCHANGED componentVars

\* the analyzer returned and the handler raises on analysis_completed
SinkRaisesAtAnalysisCompleted ==
    /\ pc = "analyze"
    /\ handler = "analysis_completed"
    /\ \E detected \in SeqsUpTo(Capabilities, MaxDetected) :
       \E S \in SUBSET Range(detected) :
          RouteExcept([result EXCEPT !.detected = detected,
                                     !.subtasks = AnalysisSubtasks(S)],
                      events \o <<Ev("analysis_completed", "", "", "")>>,
                      "sink", SinkError)
    /\ UNCHANGED <<orch, handler, registry, results, idx, cur, calls,
                   synthArgs, tracked>>
    /\ UNCHANGED componentVars

\* the handler raises on the first discovery_started or discovery_completed
\* of the discovery loop; the local list of matches is lost
SinkRaisesAtDiscovery ==
    /\ pc = "discover"
    /\ handler \in {"discovery_started", "discovery_completed"}
    /\ RouteExcept(result,
                   events \o SubSeq(DiscoveryEvents(Discover(registry, result.detected)),
                                    1, IF handler = "discovery_started" THEN 1 ELSE 2),
                   "sink", SinkError)
    /\ UNCHANGED <<orch, handler, registry, results, idx, cur, calls,
                   synthArgs, tracked>>
    /\ UNCHANGED componentVars

\* the handler raises on execution_started, emitted by execute_on_agent
\* before its try: the exception leaves execute_on_agent and execute_all
\* before the agent is called
SinkRaisesAtExecutionStarted ==
    /\ pc = "exec"
    /\ handler = "execution_started"
    /\ LET j == NextEligible(result.matches, result.subtasks, registry, idx)
       IN  /\ j # 0
           /\ idx' = j
           /\ RouteExcept(result,
                 events \o <<Ev("execution_started", SelectAgent(result.matches[j]),
                                result.matches[j].capability, "")>>,
                 "sink", SinkError)
    /\ UNCHANGED <<orch, handler, registry, results, cur, calls, synthArgs,
                   tracked>>
    /\ UNCHANGED componentVars

\* the agent call resolves and the handler raises on execution_completed:
\* raised in the try after a successful call, the exception is caught by
\* execute_on_agent's except branch, which emits execution_completed again;
\* raised in the except branch, it leaves execute_on_agent and execute_all
SinkRaisesAtExecutionCompleted ==
    /\ pc = "agent"
    /\ handler = "execution_completed"
    /\ \E ok \in BOOLEAN : \E msg \in Messages :
       LET m == result.matches[cur]
           agent == SelectAgent(m)
       IN  /\ ok => msg = ""
           /\ calls' = Append(calls, CallResolved(m, ok, msg))
           /\ RouteExcept(result,
                 events
                 \o (IF ok
                     THEN <<Ev("execution_completed", agent, m.capability, "true")>>
                     ELSE <<>>)
                 \o <<Ev("execution_completed", agent, m.capability, "false")>>,
                 "sink", SinkError)
    /\ cur' = 0
    /\ UNCHANGED <<orch, handler, registry, results, idx, synthArgs, tracked>>
    /\ UNCHANGED componentVars

\* execute_all returned more than one success and the handler raises on
\* synthesis_started: the synthesizer is not invoked
SinkRaisesAtSynthesisStarted ==
    /\ pc = "execret"
    /\ handler = "synthesis_started"
    /\ NeedsSynthesis(results)
    /\ RouteExcept([result EXCEPT !.executions = results,
                                  !.status = "synthesizing"],
                   events \o <<Ev("synthesis_started", "", "", "")>>,
                   "sink", SinkError)
    /\ UNCHANGED <<orch, handler, registry, results, idx, cur, calls,
                   synthArgs, tracked>>
    /\ UNCHANGED componentVars

\* the synthesizer returned and the handler raises on synthesis_completed
SinkRaisesAtSynthesisCompleted ==
    /\ pc = "synth"
    /\ handler = "synthesis_completed"
    /\ LET synthesis == SynthesisOf(synthArgs[Len(synthArgs)])
       IN  RouteExcept([result EXCEPT
                            !.synthesis = Some(synthesis),
                            !.final_output = synthesis.synthesized_output],
                       events \o <<Ev("synthesis_completed", "", "", "")>>,
                       "sink", SinkError)
    /\ UNCHANGED <<orch, handler, registry, results, idx, cur, calls,
                   synthArgs, tracked>>
    /\ UNCHANGED componentVars

\* the analysis has no capability and the handler raises on the
\* routing_completed that ends the task: the except branch overwrites the
\* completed status and emits routing_completed again
SinkRaisesAtNoCapabilities ==
    /\ pc = "analyze"
    /\ handler = "routing_completed"
    /\ RouteExcept([result EXCEPT
                       !.status = "completed",
                       !.final_output = "No capabilities detected for this task."],
                   events \o <<Ev("analysis_completed", "", "", ""),
                               Ev("routing_completed", "completed", "", "")>>,
                   "sink", SinkError)
    /\ UNCHANGED <<orch, handler, registry, results, idx, cur, calls,
                   synthArgs, tracked>>
    /\ UNCHANGED componentVars

\* no capability matched and the handler raises on routing_completed
SinkRaisesAtNoAgents ==
    /\ pc = "discover"
    /\ handler = "routing_completed"
    /\ LET matches == Discover(registry, result.detected)
       IN  /\ ~AnyMatched(matches)
           /\ RouteExcept(DiscoveredResult(result, matches),
                 events \o DiscoveryEvents(matches)
                        \o <<Ev("routing_completed", "completed", "", "")>>,
                 "sink", SinkError)
    /\ UNCHANGED <<orch, handler, registry, results, idx, cur, calls,
                   synthArgs, tracked>>
    /\ UNCHANGED componentVars

\* execute_all returned at most one success and the handler raises on
\* routing_completed
SinkRaisesAtDirectCompletion ==
    /\ pc = "execret"
    /\ handler = "routing_completed"
    /\ ~NeedsSynthesis(results)
    /\ RouteExcept([result EXCEPT !.executions = results,
                                  !.final_output = DirectOutput(results),
                                  !.status = "completed"],
                   events \o <<Ev("routing_completed", "completed", "", "")>>,
                   "sink", SinkError)
    /\ UNCHANGED <<orch, handler, registry, results, idx, cur, calls,
                   synthArgs, tracked>>
    /\ UNCHANGED componentVars

\* the synthesizer returned and the handler raises on routing_completed
SinkRaisesAtSynthesizedCompletion ==
    /\ pc = "synth"
    /\ handler = "routing_completed"
    /\ LET synthesis == SynthesisOf(synthArgs[Len(synthArgs)])
       IN  RouteExcept([result EXCEPT
                            !.synthesis = Some(synthesis),
                            !.final_output = synthesis.synthesized_output,
                            !.status = "completed"],
                       events \o <<Ev("synthesis_completed", "", "", ""),
                                   Ev("routing_completed", "completed", "", "")>>,
                       "sink", SinkError)
    /\ UNCHANGED <<orch, handler, registry, results, idx, cur, calls,
                   synthArgs, tracked>>
    /\ UNCHANGED componentVars

\* the analyzer or the synthesizer raises and the handler raises on the
\* routing_completed of the except branch: the exception leaves route
SinkRaisesInExcept ==
    /\ pc \in {"analyze", "synth"}
    /\ handler = "routing_completed"
    /\ \E msg \in Messages :
          RouteExcept(result, events,
                      IF pc = "analyze" THEN "analysis" ELSE "synthesis", msg)
    /\ UNCHANGED <<orch, handler, registry, results, idx, cur, calls,
                   synthArgs, tracked>>
    /\ UNCHANGED componentVars

NextSink ==
    \/ RouteStart /\ SinkReturned
    \/ RouteAnalyzeReturn /\ SinkReturned
    \/ RouteAnalyzeRaise /\ SinkReturned
    \/ RouteDiscover /\ SinkReturned
    \/ ExecuteAllStep /\ SinkReturned
    \/ AgentReturn /\ SinkReturned
    \/ AgentRaise /\ SinkReturned
    \/ RouteDecide /\ SinkReturned
    \/ RouteSynthReturn /\ SinkReturned
    \/ RouteSynthRaise /\ SinkReturned
    \/ SinkRaisesAtRoutingStarted
    \/ SinkRaisesAtAnalysisStarted
    \/ SinkRaisesAtAnalysisCompleted
    \/ SinkRaisesAtDiscovery
    \/ SinkRaisesAtExecutionStarted
    \/ SinkRaisesAtExecutionCompleted
    \/ SinkRaisesAtSynthesisStarted
    \/ SinkRaisesAtSynthesisCompleted
    \/ SinkRaisesAtNoCapabilities
    \/ SinkRaisesAtNoAgents
    \/ SinkRaisesAtDirectCompletion
    \/ SinkRaisesAtSynthesizedCompletion
    \/ SinkRaisesInExcept

SpecSink == InitSink /\ [][NextSink]_vars

\* C15: whatever the event handler does, route does not raise and does not
\* fail because of it: the task fails only when the analyzer or the
\* synthesizer raised, exactly as with no handler attached, and every
\* eligible capability's agent is called.
C15_SinkDoesNotChangeOrchestration ==
    /\ pc # "raised"
    /\ escaped.step # "sink"
    /\ pc = "done" /\ escaped.step = "none" => result.status = "completed"
    /\ pc = "done" /\ AnyMatched(result.matches) /\ escaped.step # "analysis"
          => Len(StartedCalls) = Len(EligibleMatches)

\* the execution events handed to the handler, in order
ExecutionEvents ==
    SelectSeq(events, LAMBDA e : e.type \in {"execution_started",
                                             "execution_completed"})

\* the execution_completed events handed to the handler, in order
CompletionEvents ==
    SelectSeq(events, LAMBDA e : e.type = "execution_completed")

\* C16: with a handler attached, the execution events follow the agent
\* calls one to one: an execution_started for the agent and capability when
\* the call is started, an execution_completed when it has resolved,
\* whether it returned or raised, and the success flag of that event is the
\* success flag of the ExecutionResult the call produced.
C16_ExecutionEventsBracketCalls ==
    handler = "ok" =>
    /\ Len(ExecutionEvents) = Len(calls)
    /\ \A i \in 1..Len(calls) :
          /\ i <= Len(ExecutionEvents)
          /\ ExecutionEvents[i].a = calls[i].agent
          /\ ExecutionEvents[i].b = calls[i].capability
          /\ calls[i].kind = "start" =>
                ExecutionEvents[i].type = "execution_started"
          /\ calls[i].kind = "end" =>
                /\ ExecutionEvents[i].type = "execution_completed"
                /\ ExecutionEvents[i].c = BoolText(calls[i].ok)
    /\ \A k \in 1..Len(results) :
          /\ k <= Len(CompletionEvents)
          /\ CompletionEvents[k].a = results[k].agent_id
          /\ CompletionEvents[k].c = BoolText(results[k].success)

\* C16 witness: a call that returned and a call that raised have both been
\* bracketed by their events
C16_Witness ==
    /\ handler = "ok"
    /\ Len(CompletionEvents) = 2
    /\ CompletionEvents[1].c = "true"
    /\ CompletionEvents[2].c = "false"
    /\ Len(results) = 2

\* the phase an event of SmartRouter.route belongs to
PhaseOf(type) ==
    CASE type = "routing_started" -> 0
      [] type \in {"analysis_started", "analysis_completed"} -> 1
      [] type \in {"discovery_started", "discovery_completed"} -> 2
      [] type \in {"execution_started", "execution_completed"} -> 3
      [] type \in {"synthesis_started", "synthesis_completed"} -> 4
      [] type = "routing_completed" -> 5

\* the positions of the events of a type
EventsOfType(type) == {i \in 1..Len(events) : events[i].type = type}

\* C17: the events of one route call come in phase order. routing_started
\* is the first event and the only one of its type; routing_completed is
\* emitted exactly once, as the last event, exactly when route has returned;
\* analysis_started comes before analysis_completed; every
\* discovery_started is immediately followed by the discovery_completed of
\* the same capability; and an event of a later phase (analysis, discovery,
\* execution, synthesis, completion) never precedes one of an earlier phase.
C17_EventsInPhaseOrder ==
    handler = "ok" =>
    /\ pc # "start" => events # <<>> /\ events[1].type = "routing_started"
    /\ Cardinality(EventsOfType("routing_started")) <= 1
    /\ Cardinality(EventsOfType("routing_completed")) = (IF pc = "done" THEN 1 ELSE 0)
    /\ pc = "done" => events[Len(events)].type = "routing_completed"
    /\ \A i, j \in 1..Len(events) :
          i < j => PhaseOf(events[i].type) <= PhaseOf(events[j].type)
    /\ Cardinality(EventsOfType("analysis_started")) <= 1
    /\ \A j \in EventsOfType("analysis_completed") :
          \E i \in EventsOfType("analysis_started") : i < j
    /\ \A i \in EventsOfType("discovery_started") :
          /\ i < Len(events)
          /\ events[i + 1].type = "discovery_completed"
          /\ events[i + 1].a = events[i].a
    /\ \A j \in EventsOfType("discovery_completed") :
          j > 1 /\ events[j - 1].type = "discovery_started"
    /\ \A j \in EventsOfType("synthesis_completed") :
          \E i \in EventsOfType("synthesis_started") : i < j
    /\ \A i \in EventsOfType("synthesis_started") :
          Cardinality(EventsOfType("execution_completed")) = Len(ResolvedCalls)

\* C17 witness: a route that discovered two capabilities, executed both,
\* synthesized and completed, with all its events handed over
C17_Witness ==
    /\ handler = "ok"
    /\ pc = "done"
    /\ Cardinality(EventsOfType("discovery_completed")) = 2
    /\ Cardinality(EventsOfType("execution_completed")) = 2
    /\ Cardinality(EventsOfType("synthesis_completed")) = 1
    /\ events[Len(events)].type = "routing_completed"

\* final_output of SmartRouter.route as a function of the analysis, the
\* registry and the agent calls that returned, when neither the analyzer nor
\* the synthesizer raises
RouteFinalOutput(detected, reg, returned) ==
    IF detected = <<>>
    THEN "No capabilities detected for this task."
    ELSE IF ~AnyMatched(Discover(reg, detected))
    THEN "No agents found for required capabilities."
    ELSE IF Len(returned) > 1
    THEN "synthesized"
    ELSE IF Len(returned) = 1
    THEN AgentOutput(returned[1].agent)
    ELSE "All executions failed."

\* C18: a task that finished without an exception has the final output
\* SmartRouter.route gives for its analysis, registry and agent outcomes,
\* whichever orchestrator handled it, and without a matched capability no
\* agent has been called.
C18_SameOutcomeInBothOrchestrators ==
    pc = "done" /\ escaped.step = "none"
    =>
    /\ result.final_output =
          RouteFinalOutput(result.detected, registry, ReturnedCalls)
    /\ ~AnyMatched(Discover(registry, result.detected)) => calls = <<>>

\* C19: when an exception leaves a node of the graph, GraphRunner.run still
\* returns: the returned state has status failed, the tracked task is failed
\* with the exception's message as error, and what the nodes that had
\* completed produced (here, before the synthesize node: the detected
\* capabilities, one match for each, one execution per agent call) is still
\* in the returned state.
C19_GraphFailureKeepsPartialState ==
    orch = "graph" /\ escaped.step # "none"
    =>
    /\ pc = "done"
    /\ result.status = "failed"
    /\ tracked.status = "failed"
    /\ tracked.error = Some(escaped.msg)
    /\ escaped.step = "synthesis" =>
          /\ result.detected # <<>>
          /\ Len(result.matches) = Len(result.detected)
          /\ Len(result.executions) = Len(ResolvedCalls)
          /\ \A k \in 1..Len(result.executions) :
                /\ result.executions[k].agent_id = ResolvedCalls[k].agent
                /\ result.executions[k].success = ResolvedCalls[k].ok

----------------------------------------------------------------------------
(* AgentRegistry.register / unregister / get, called directly               *)
(*                                                                          *)
(* An agent object is named by its identifier; "calc#2" is a second agent   *)
(* constructed with the identifier "calc".  The registry is the dict        *)
(* _agents: its entries in insertion order, one per identifier.             *)

\* Number of registry operations in one behaviour.
MaxOps == 3

AgentObjects == AgentIds \cup {"calc#2"}

\* agent.id
IdOf(a) == IF a = "calc#2" THEN "calc" ELSE a

\* AgentRegistry.get: self._agents.get(agent_id)
get(reg, agent_id) ==
    LET S == {i \in 1..Len(reg) : IdOf(reg[i]) = agent_id}
    IN  IF S = {} THEN None ELSE Some(reg[CHOOSE i \in S : TRUE])

\* self._agents[agent.id] = agent: a new key is added at the end, an
\* existing key keeps its place and gets the new value
DictSet_ReinsertsAtEnd(reg, agent) ==
    Append(SelectSeq(reg, LAMBDA a : IdOf(a) # IdOf(agent)), agent)

DictSet(reg, agent) ==
    IF get(reg, IdOf(agent)) = None
    THEN Append(reg, agent)
    ELSE [i \in 1..Len(reg) |->
            IF IdOf(reg[i]) = IdOf(agent) THEN agent ELSE reg[i]]

\* AgentRegistry.register: the dict afterwards and whether ValueError was
\* raised
register_StoresBeforeCheck(reg, agent, replace) ==
    IF get(reg, IdOf(agent)) # None /\ ~replace
    THEN [agents |-> DictSet(reg, agent), raised |-> TRUE]
    ELSE [agents |-> DictSet(reg, agent), raised |-> FALSE]

register(reg, agent, replace) ==
    IF get(reg, IdOf(agent)) # None /\ ~replace
    THEN [agents |-> reg, raised |-> TRUE]
    ELSE [agents |-> DictSet(reg, agent), raised |-> FALSE]

\* AgentRegistry.unregister: self._agents.pop(agent_id, None)
unregister_GetsWithoutRemoving(reg, agent_id) ==
    [agents  |-> reg,
     removed |-> get(reg, agent_id)]

unregister(reg, agent_id) ==
    [agents  |-> SelectSeq(reg, LAMBDA a : IdOf(a) # agent_id),
     removed |-> get(reg, agent_id)]

\* entry of the call log for a registry operation
RegistryCall(kind, agent, ok) ==
    [kind |-> kind, capability |-> "", agent |-> agent, ok |-> ok, msg |-> ""]

\* a call made by a caller of the component: the method, its arguments and
\* the value it returned (for a register that raised, the exception)
DirectCall(op, args, value) == [op |-> op, args |-> args, value |-> value]

InitRegistry ==
    /\ orch = "none"
    /\ handler = "none"
    /\ registry = <<>>
    /\ pc = "idle"
    /\ result = InitialResult
    /\ results = <<>>
    /\ idx = 0
    /\ cur = 0
    /\ calls = <<>>
    /\ synthArgs = <<>>
    /\ events = <<>>
    /\ escaped = [step |-> "none", msg |-> ""]
    /\ tracked = [status |-> "none", error |-> None]
    /\ ComponentsIdle
    /\ WiredAtStart

\* a caller registers an agent, with or without replace
RegisterAgent ==
    /\ pc = "idle"
    /\ Len(calls) < MaxOps
    /\ \E agent \in AgentObjects : \E replace \in BOOLEAN :
       LET r == register(registry, agent, replace)
       IN  /\ registry' = r.agents
           /\ calls' = Append(calls,
                 RegistryCall(IF replace THEN "register_replace" ELSE "register",
                              agent, ~r.raised))
           /\ directCalls' = Append(directCalls,
                 DirectCall("register", <<agent, replace>>,
                            IF r.raised THEN Some("ValueError") ELSE None))
    /\ UNCHANGED <<orch, handler, pc, result, results, idx, cur, synthArgs,
                   events, escaped, tracked, chain, stream, wiring,
                   research, pipelines, storage>>

\* a caller unregisters an identifier
UnregisterAgent ==
    /\ pc = "idle"
    /\ Len(calls) < MaxOps
    /\ \E agent_id \in AgentIds :
       LET r == unregister(registry, agent_id)
       IN  /\ registry' = r.agents
           /\ calls' = Append(calls,
                 RegistryCall("unregister", agent_id, r.removed # None))
           /\ directCalls' = Append(directCalls,
                 DirectCall("unregister", agent_id, r.removed))
    /\ UNCHANGED <<orch, handler, pc, result, results, idx, cur, synthArgs,
                   events, escaped, tracked, chain, stream, wiring,
                   research, pipelines, storage>>

NextRegistry ==
    \/ RegisterAgent
    \/ UnregisterAgent

SpecRegistry == InitRegistry /\ [][NextRegistry]_vars

\* the registry operation made by the current step, if it is a register
RegisterStep ==
    /\ Len(calls') = Len(calls) + 1
    /\ calls'[Len(calls')].kind \in {"register", "register_replace"}

\* C20: a register without replace of an identifier that is present raises
\* and leaves the registry, and so the agent stored under that identifier,
\* as it was; every other register returns, get(id) then gives the agent
\* just passed, every other entry is what it was, and the number of entries
\* has grown by one if the identifier was absent and not at all otherwise.
C20_RegisterDuplicate ==
    [][RegisterStep =>
        LET op      == calls'[Len(calls')]
            id      == IdOf(op.agent)
            present == get(registry, id) # None
        IN  IF present /\ op.kind = "register"
            THEN /\ ~op.ok
                 /\ registry' = registry
                 /\ get(registry', id) = get(registry, id)
            ELSE /\ op.ok
                 /\ get(registry', id) = Some(op.agent)
                 /\ \A other \in AgentIds \ {id} :
                       get(registry', other) = get(registry, other)
                 /\ Len(registry') =
                       Len(registry) + (IF present THEN 0 ELSE 1)]_vars

\* C20 witness: the last operation was a register without replace that
\* raised, for a second agent with an identifier whose first agent is still
\* the one stored
C20_Witness ==
    /\ calls # <<>>
    /\ calls[Len(calls)].kind = "register"
    /\ ~calls[Len(calls)].ok
    /\ calls[Len(calls)].agent = "calc#2"
    /\ get(registry, "calc") = Some("calc")
    /\ Len(registry) = 2

\* the operations of the call log that changed the entry of an identifier
SuccessfulOpsOn(id) ==
    {k \in 1..Len(calls) : calls[k].ok /\ IdOf(calls[k].agent) = id}

IsRegisterOp(k) == calls[k].kind \in {"register", "register_replace"}

\* the last operation that changed the entry of an identifier (0: none)
LastOpOn(id) ==
    IF SuccessfulOpsOn(id) = {} THEN 0
    ELSE CHOOSE k \in SuccessfulOpsOn(id) : \A j \in SuccessfulOpsOn(id) : j <= k

\* the identifier has an agent registered, according to the call log
Registered(id) == LastOpOn(id) # 0 /\ IsRegisterOp(LastOpOn(id))

\* the agents registered according to the call log
RegisteredAgents ==
    {calls[LastOpOn(id)].agent : id \in {i \in AgentIds : Registered(i)}}

\* the operation that registered the agent now stored under an identifier
RegisteredAt(id) == LastOpOn(id)

\* the operation by which the identifier entered the registry: the first of
\* the register operations made on it since it was last absent
InsertedAt(id) ==
    CHOOSE k \in SuccessfulOpsOn(id) :
        /\ IsRegisterOp(k)
        /\ \A j \in SuccessfulOpsOn(id) : j > k => IsRegisterOp(j)
        /\ \A j \in SuccessfulOpsOn(id) :
              j < k => \E l \in SuccessfulOpsOn(id) :
                          j <= l /\ l < k /\ ~IsRegisterOp(l)

\* find_by_capability returns exactly the registered agents having the tag,
\* each once
FindReturnsTheTaggedAgents(tag) ==
    LET found == find_by_capability(registry, tag)
    IN  /\ Range(found) = {a \in RegisteredAgents : tag \in AgentCapabilities(a)}
        /\ \A i, j \in 1..Len(found) : i # j => found[i] # found[j]

\* C21, as claimed: after any sequence of register and unregister calls,
\* find_by_capability returns exactly the registered agents having the tag,
\* each once, in the order in which these agents were registered.
C21_FindInRegistrationOrder ==
    \A tag \in Capabilities :
        LET found == find_by_capability(registry, tag)
        IN  /\ FindReturnsTheTaggedAgents(tag)
            /\ \A i, j \in 1..Len(found) :
                  i < j => RegisteredAt(IdOf(found[i])) < RegisteredAt(IdOf(found[j]))

\* C21, amended: after any sequence of register and unregister calls,
\* find_by_capability returns exactly the registered agents having the tag,
\* each once, in the order in which their identifiers entered the registry:
\* an agent registered with replace over a present identifier takes the
\* place of the agent it replaces.
C21_FindInInsertionOrder ==
    \A tag \in Capabilities :
        LET found == find_by_capability(registry, tag)
        IN  /\ FindReturnsTheTaggedAgents(tag)
            /\ \A i, j \in 1..Len(found) :
                  i < j => InsertedAt(IdOf(found[i])) < InsertedAt(IdOf(found[j]))

\* C21 witness: an agent registered with replace after another agent is
\* returned before it, in the place of the agent it replaced
C21_Witness ==
    LET found == find_by_capability(registry, "creative_writing")
    IN  /\ Len(found) = 2
        /\ found[1] = "calc#2"
        /\ RegisteredAt(IdOf(found[1])) > RegisteredAt(IdOf(found[2]))

----------------------------------------------------------------------------
(* AgentRegistry.get / find_by_capability / find_by_capabilities, called    *)
(* directly on a registry that is not changed in between                    *)

\* Number of lookups in one behaviour.
MaxLookups == 3

\* Contents of _agents after any calls of register and unregister: agent
\* objects in insertion order, one per identifier.
DictContents ==
    {s \in SeqsUpTo(AgentObjects, Cardinality(AgentIds)) :
        \A i, j \in 1..Len(s) : i # j => IdOf(s[i]) # IdOf(s[j])}

\* The capability lists passed to find_by_capabilities; caps_set is
\* set(capabilities).
TagSets ==
    {{}, {"calculation"}, {"calculation", "creative_writing"},
     {"calculation", "unknown"}}

\* AgentRegistry.find_by_capabilities: the agents passing the test, in the
\* order of _agents.values()
find_by_capabilities_AnyWhenAll(reg, caps_set, match_all) ==
    SelectSeq(reg, LAMBDA a : caps_set \cap AgentCapabilities(a) # {})

find_by_capabilities(reg, caps_set, match_all) ==
    SelectSeq(reg, LAMBDA a :
        IF match_all
        THEN caps_set \subseteq AgentCapabilities(a)
        ELSE caps_set \cap AgentCapabilities(a) # {})

InitLookup ==
    /\ orch = "none"
    /\ handler = "none"
    /\ registry \in DictContents
    /\ pc = "idle"
    /\ result = InitialResult
    /\ results = <<>>
    /\ idx = 0
    /\ cur = 0
    /\ calls = <<>>
    /\ synthArgs = <<>>
    /\ events = <<>>
    /\ escaped = [step |-> "none", msg |-> ""]
    /\ tracked = [status |-> "none", error |-> None]
    /\ ComponentsIdle
    /\ WiredAtStart

\* registry.get(agent_id); the dict after the call is what dict.get leaves
GetAgent_Pops ==
    /\ pc = "idle"
    /\ Len(directCalls) < MaxLookups
    /\ \E agent_id \in AgentIds :
          /\ directCalls' = Append(directCalls,
                DirectCall("get", agent_id, get(registry, agent_id)))
          /\ registry' = unregister(registry, agent_id).agents
    /\ UNCHANGED <<orch, handler, pc, result, results, idx, cur, calls,
                   synthArgs, events, escaped, tracked, chain, stream,
                   wiring, research, pipelines, storage>>

GetAgent ==
    /\ pc = "idle"
    /\ Len(directCalls) < MaxLookups
    /\ \E agent_id \in AgentIds :
          directCalls' = Append(directCalls,
              DirectCall("get", agent_id, get(registry, agent_id)))
    /\ UNCHANGED <<orch, handler, registry, pc, result, results, idx, cur,
                   calls, synthArgs, events, escaped, tracked, chain, stream,
                   wiring, research, pipelines, storage>>

\* registry.find_by_capability(capability)
FindByCapability ==
    /\ pc = "idle"
    /\ Len(directCalls) < MaxLookups
    /\ \E capability \in Capabilities :
          directCalls' = Append(directCalls,
              DirectCall("find_by_capability", capability,
                         find_by_capability(registry, capability)))
    /\ UNCHANGED <<orch, handler, registry, pc, result, results, idx, cur,
                   calls, synthArgs, events, escaped, tracked, chain, stream,
                   wiring, research, pipelines, storage>>

\* registry.find_by_capabilities(capabilities, match_all)
FindByCapabilities ==
    /\ pc = "idle"
    /\ Len(directCalls) < MaxLookups
    /\ \E caps_set \in TagSets : \E match_all \in BOOLEAN :
          directCalls' = Append(directCalls,
              DirectCall("find_by_capabilities", <<caps_set, match_all>>,
                         find_by_capabilities(registry, caps_set, match_all)))
    /\ UNCHANGED <<orch, handler, registry, pc, result, results, idx, cur,
                   calls, synthArgs, events, escaped, tracked, chain, stream,
                   wiring, research, pipelines, storage>>

NextLookup ==
    \/ GetAgent
    \/ FindByCapability
    \/ FindByCapabilities

SpecLookup == InitLookup /\ [][NextLookup]_vars

\* the direct calls of one method
CallsOf(op) == {k \in 1..Len(directCalls) : directCalls[k].op = op}

\* C22: find_by_capabilities(tags, match_all) returns registered agents
\* only; with match_all an agent is returned if and only if it has every tag
\* of tags, so every agent when tags is empty; without match_all if and only
\* if it has at least one tag of tags, so no agent when tags is empty.
C22_FindByCapabilities ==
    \A k \in CallsOf("find_by_capabilities") :
        LET tags      == directCalls[k].args[1]
            match_all == directCalls[k].args[2]
            found     == Range(directCalls[k].value)
        IN  /\ found \subseteq Range(registry)
            /\ \A a \in Range(registry) :
                  a \in found <=>
                     IF match_all
                     THEN \A t \in tags : t \in AgentCapabilities(a)
                     ELSE \E t \in tags : t \in AgentCapabilities(a)
            /\ tags = {} =>
                  IF match_all THEN found = Range(registry) ELSE found = {}

\* C22 witness: on three registered agents, the lookup of two tags with
\* match_all returned the one agent having both, the lookup of no tag with
\* match_all returned all three, and the lookup of no tag without match_all
\* returned none
C22_Witness ==
    /\ Len(registry) = 3
    /\ \E k \in CallsOf("find_by_capabilities") :
          /\ directCalls[k].args = <<{"calculation", "creative_writing"}, TRUE>>
          /\ directCalls[k].value = <<"multi">>
    /\ \E k \in CallsOf("find_by_capabilities") :
          /\ directCalls[k].args = <<{}, TRUE>>
          /\ Len(directCalls[k].value) = 3
    /\ \E k \in CallsOf("find_by_capabilities") :
          /\ directCalls[k].args = <<{}, FALSE>>
          /\ directCalls[k].value = <<>>

\* the registry operation made by the current step, if it is an unregister
UnregisterStep ==
    /\ Len(calls') = Len(calls) + 1
    /\ calls'[Len(calls')].kind = "unregister"

\* C23: unregister(id) of a present identifier returns the agent stored
\* under it and removes that entry only: get(id) is then not-found, every
\* other entry is where and what it was, and a register of id without
\* replace returns; unregister(id) of an absent identifier returns not-found
\* and leaves the registry as it was.
C23_UnregisterRemovesOneEntry ==
    [][UnregisterStep =>
        LET id       == calls'[Len(calls')].agent
            returned == directCalls'[Len(directCalls')].value
        IN  IF get(registry, id) # None
            THEN /\ returned = get(registry, id)
                 /\ get(registry', id) = None
                 /\ \A other \in AgentIds \ {id} :
                       get(registry', other) = get(registry, other)
                 /\ registry' = SelectSeq(registry, LAMBDA a : a # returned[1])
                 /\ Len(registry') = Len(registry) - 1
                 /\ \A a \in AgentObjects :
                       IdOf(a) = id => ~register(registry', a, FALSE).raised
            ELSE /\ returned = None
                 /\ registry' = registry]_vars

\* C23 witness: an identifier was registered after another and unregistered,
\* which returned its agent and left the entry of the other identifier as
\* the only one
C23_Witness ==
    /\ Len(calls) = 3
    /\ calls[1].kind = "register" /\ calls[1].agent = "writer"
    /\ calls[2].kind = "register" /\ calls[2].agent = "calc" /\ calls[2].ok
    /\ calls[3].kind = "unregister" /\ calls[3].agent = "calc" /\ calls[3].ok
    /\ directCalls[3].value = Some("calc")
    /\ registry = <<"writer">>

\* the step is a lookup: a direct call is added to the log
LookupStep == Len(directCalls') = Len(directCalls) + 1

\* C24: get, find_by_capability and find_by_capabilities leave the registry
\* as it was, and each returns what every earlier call of the same lookup
\* with the same arguments returned, whatever lookups were made in between.
C24_LookupsReadOnlyIdempotent ==
    [][LookupStep =>
        LET n == Len(directCalls')
        IN  /\ registry' = registry
            /\ \A k \in 1..Len(directCalls) :
                  (/\ directCalls[k].op = directCalls'[n].op
                   /\ directCalls[k].args = directCalls'[n].args)
                  => directCalls[k].value = directCalls'[n].value]_vars

\* C24 witness: the same get was made before and after a find_by_capability
\* and returned the same agent both times
C24_Witness ==
    /\ Len(directCalls) = 3
    /\ directCalls[1] = DirectCall("get", "calc", Some("calc#2"))
    /\ directCalls[2].op = "find_by_capability"
    /\ directCalls[2].value # <<>>
    /\ directCalls[3] = directCalls[1]

----------------------------------------------------------------------------
(* ChainPipeline.run (agents/chain/pipeline.py)                             *)
(*                                                                          *)
(* `chain` holds the pipeline's agents, the input prompt, the locals of run *)
(* and the PipelineResult it returns; `calls` logs every call of            *)
(* transform_with_metadata and how it ended.  The event handler, when one   *)
(* is configured, returns.                                                  *)

\* Longest list of step agents.
MaxSteps == 3

\* step_name of the step agents
StepNames == {"writer", "editor", "publisher"}

Prompts == {"", "p"}

\* transform_result.text of a step whose transform returns
StepOutput(step_name, text) == step_name \o "(" \o text \o ")"

\* the dict _emit_event hands to the handler
ChainEvent(event_type, data) == [event |-> event_type, data |-> data]

StepResult(step_name, index, input_text, output_text) ==
    [step_name   |-> step_name,
     step_index  |-> index,
     input_text  |-> input_text,
     output_text |-> output_text]

\* f"Step '{agent.step_name}' failed: {str(e)}"
StepError(step_name, msg) == "Step '" \o step_name \o "' failed: " \o msg

\* PipelineResult built at the end of the try block
PipelineResult(step_results, current_text, error_message) ==
    [steps        |-> step_results,
     final_output |-> IF error_message = None THEN current_text
                      ELSE "Error: " \o error_message[1],
     status       |-> IF error_message = None THEN "completed" ELSE "failed",
     error        |-> error_message]

\* entry of the call log for a call of transform_with_metadata
TransformCall(kind, index, step_name, text) ==
    [kind |-> kind, index |-> index, step_name |-> step_name, text |-> text]

InitChain ==
    /\ orch = "none"
    /\ handler \in {"none", "ok"}
    /\ registry = <<>>
    /\ pc = "chain_start"
    /\ result = InitialResult
    /\ results = <<>>
    /\ idx = 0
    /\ cur = 0
    /\ calls = <<>>
    /\ synthArgs = <<>>
    /\ events = <<>>
    /\ escaped = [step |-> "none", msg |-> ""]
    /\ tracked = [status |-> "none", error |-> None]
    /\ directCalls = <<>>
    /\ stream = None
    /\ \E agents \in SeqsUpTo(StepNames, MaxSteps) : \E prompt \in Prompts :
          chain = [agents        |-> agents,
                   prompt        |-> prompt,
                   index         |-> 0,
                   step_results  |-> <<>>,
                   current_text  |-> prompt,
                   error_message |-> None,
                   result        |-> None]
    /\ WiredAtStart
    /\ research = None
    /\ pipelines = None
    /\ storage = None

\* the agent of the current iteration: self.agents[index]
ChainAgent == chain.agents[chain.index + 1]

\* the part of the loop body up to the await of transform_with_metadata
StepStarted ==
    <<ChainEvent("step_started",
                 [step_index |-> chain.index, step_name |-> ChainAgent,
                  input_preview |-> chain.current_text])>>

\* run up to the first await: the locals, pipeline_started and, if there is
\* a step, the first iteration up to its await
ChainStart ==
    /\ pc = "chain_start"
    /\ LET started == <<ChainEvent("pipeline_started",
                           [prompt |-> chain.prompt, steps |-> chain.agents])>>
       IN  IF chain.agents = <<>>
           THEN /\ events' = Emit(events, started)
                /\ calls' = calls
                /\ pc' = "chain_end"
           ELSE /\ events' = Emit(events, started \o StepStarted)
                /\ calls' = Append(calls,
                      TransformCall("called", 0, ChainAgent, chain.current_text))
                /\ pc' = "chain_transform"
    /\ UNCHANGED <<orch, handler, registry, result, results, idx, cur,
                   synthArgs, escaped, tracked, directCalls, chain, stream,
                   wiring, research, pipelines, storage>>

\* the events of the loop body after a transform that returned
StepCompleted_AlwaysPasses(index, step_name, output_text) ==
    <<ChainEvent("step_completed",
                 [step_index |-> index, step_name |-> step_name,
                  output |-> output_text]),
      ChainEvent("message_passed",
                 [from_step |-> step_name,
                  to_step   |-> IF index < Len(chain.agents) - 1
                                THEN chain.agents[index + 2] ELSE "",
                  content   |-> output_text])>>

StepCompleted(index, step_name, output_text) ==
    <<ChainEvent("step_completed",
                 [step_index |-> index, step_name |-> step_name,
                  output |-> output_text])>>
    \o (IF index < Len(chain.agents) - 1
        THEN <<ChainEvent("message_passed",
                          [from_step |-> step_name,
                           to_step   |-> chain.agents[index + 2],
                           content   |-> output_text])>>
        ELSE <<>>)

\* transform_with_metadata returns: the step result is recorded, the events
\* are emitted, the output becomes the current text, and the next iteration
\* runs up to its await, if there is one
ChainTransformReturn_KeepsInput ==
    /\ pc = "chain_transform"
    /\ LET index       == chain.index
           output_text == StepOutput(ChainAgent, chain.current_text)
           recorded    == Append(chain.step_results,
                             StepResult(ChainAgent, index, chain.current_text,
                                        output_text))
           completed   == StepCompleted(index, ChainAgent, output_text)
           returned    == Append(calls,
                             TransformCall("returned", index, ChainAgent,
                                           output_text))
       IN  IF index + 1 < Len(chain.agents)
           THEN /\ chain' = [chain EXCEPT !.step_results = recorded,
                                          !.index = index + 1]
                /\ events' = Emit(events, completed \o
                      <<ChainEvent("step_started",
                            [step_index |-> index + 1,
                             step_name |-> chain.agents[index + 2],
                             input_preview |-> chain.current_text])>>)
                /\ calls' = Append(returned,
                      TransformCall("called", index + 1, chain.agents[index + 2],
                                    chain.current_text))
                /\ pc' = "chain_transform"
           ELSE /\ chain' = [chain EXCEPT !.step_results = recorded,
                                          !.index = index + 1]
                /\ events' = Emit(events, completed)
                /\ calls' = returned
                /\ pc' = "chain_end"
    /\ UNCHANGED <<orch, handler, registry, result, results, idx, cur,
                   synthArgs, escaped, tracked, directCalls, stream, wiring,
                   research, pipelines, storage>>

ChainTransformReturn ==
    /\ pc = "chain_transform"
    /\ LET index       == chain.index
           output_text == StepOutput(ChainAgent, chain.current_text)
           recorded    == Append(chain.step_results,
                             StepResult(ChainAgent, index, chain.current_text,
                                        output_text))
           completed   == StepCompleted(index, ChainAgent, output_text)
           returned    == Append(calls,
                             TransformCall("returned", index, ChainAgent,
                                           output_text))
       IN  IF index + 1 < Len(chain.agents)
           THEN /\ chain' = [chain EXCEPT !.step_results = recorded,
                                          !.current_text = output_text,
                                          !.index = index + 1]
                /\ events' = Emit(events, completed \o
                      <<ChainEvent("step_started",
                            [step_index |-> index + 1,
                             step_name |-> chain.agents[index + 2],
                             input_preview |-> output_text])>>)
                /\ calls' = Append(returned,
                      TransformCall("called", index + 1, chain.agents[index + 2],
                                    output_text))
                /\ pc' = "chain_transform"
           ELSE /\ chain' = [chain EXCEPT !.step_results = recorded,
                                          !.current_text = output_text,
                                          !.index = index + 1]
                /\ events' = Emit(events, completed)
                /\ calls' = returned
                /\ pc' = "chain_end"
    /\ UNCHANGED <<orch, handler, registry, result, results, idx, cur,
                   synthArgs, escaped, tracked, directCalls, stream, wiring,
                   research, pipelines, storage>>

\* transform_with_metadata raises: the inner except sets error_message and
\* leaves the loop
ChainTransformRaise_Continues ==
    /\ pc = "chain_transform"
    /\ \E msg \in Messages :
          /\ chain' = [chain EXCEPT
                !.error_message = Some(StepError(ChainAgent, msg)),
                !.index = chain.index + 1]
          /\ IF chain.index + 1 < Len(chain.agents)
             THEN /\ calls' = calls \o
                        <<TransformCall("raised", chain.index, ChainAgent, msg),
                          TransformCall("called", chain.index + 1,
                                        chain.agents[chain.index + 2],
                                        chain.current_text)>>
                  /\ pc' = "chain_transform"
             ELSE /\ calls' = Append(calls,
                        TransformCall("raised", chain.index, ChainAgent, msg))
                  /\ pc' = "chain_end"
    /\ UNCHANGED <<orch, handler, registry, result, results, idx, cur,
                   synthArgs, events, escaped, tracked, directCalls, stream,
                   wiring, research, pipelines, storage>>

ChainTransformRaise ==
    /\ pc = "chain_transform"
    /\ \E msg \in Messages :
          /\ chain' = [chain EXCEPT
                !.error_message = Some(StepError(ChainAgent, msg))]
          /\ calls' = Append(calls,
                TransformCall("raised", chain.index, ChainAgent, msg))
    /\ pc' = "chain_end"
    /\ UNCHANGED <<orch, handler, registry, result, results, idx, cur,
                   synthArgs, events, escaped, tracked, directCalls, stream,
                   wiring, research, pipelines, storage>>

\* after the loop: status, pipeline_completed and the returned PipelineResult
ChainFinish ==
    /\ pc = "chain_end"
    /\ LET r == PipelineResult(chain.step_results, chain.current_text,
                               chain.error_message)
       IN  /\ events' = Emit(events,
                 <<ChainEvent("pipeline_completed",
                       [status       |-> r.status,
                        final_output |-> IF chain.error_message = None
                                         THEN chain.current_text ELSE "",
                        error        |-> chain.error_message])>>)
           /\ chain' = [chain EXCEPT !.result = Some(r)]
    /\ pc' = "chain_done"
    /\ UNCHANGED <<orch, handler, registry, result, results, idx, cur, calls,
                   synthArgs, escaped, tracked, directCalls, stream, wiring,
                   research, pipelines, storage>>

NextChain ==
    \/ ChainStart
    \/ ChainTransformReturn
    \/ ChainTransformRaise
    \/ ChainFinish

SpecChain == InitChain /\ [][NextChain]_vars

\* the entries of the call log of one kind
TransformCalls(kind) == SelectSeq(calls, LAMBDA c : c.kind = kind)

\* run has returned
ChainReturned == pc = "chain_done"

\* C25: if the transform of step k raises, no step after k is called; run
\* then returns a result whose step list holds exactly the results of the
\* steps before k, whose status is failed and whose error names step k.
C25_ChainStopsOnError ==
    \A i \in 1..Len(calls) :
        calls[i].kind = "raised" =>
            LET k == calls[i].index
            IN  /\ i = Len(calls)
                /\ \A j \in 1..Len(calls) : calls[j].index <= k
                /\ ChainReturned =>
                      /\ chain.result # None
                      /\ chain.result[1].status = "failed"
                      /\ Len(chain.result[1].steps) = k
                      /\ \A j \in 1..k :
                            /\ chain.result[1].steps[j].step_index = j - 1
                            /\ chain.result[1].steps[j].step_name = chain.agents[j]
                      /\ \E msg \in Messages :
                            chain.result[1].error =
                               Some(StepError(chain.agents[k + 1], msg))

\* C25 witness: in a chain of three steps the transform of the second raised
\* and run returned a failed result with the first step's result only
C25_Witness ==
    /\ ChainReturned
    /\ chain.agents = <<"writer", "editor", "publisher">>
    /\ calls[Len(calls)].kind = "raised"
    /\ calls[Len(calls)].index = 1
    /\ Len(chain.result[1].steps) = 1
    /\ chain.result[1].error = Some("Step 'editor' failed: boom")

\* C26: in a run in which no transform raises, step 0 is called with the
\* prompt and every later step with the output of the step before it; at
\* the return the step results carry the indices 0..n-1 in the order of the
\* steps, each with the input and output of its call, the final output is
\* the last step's output, or the prompt when there is no step, and the
\* status is completed.
C26_ChainPassesOutputOn ==
    TransformCalls("raised") = <<>> =>
        LET called   == TransformCalls("called")
            returned == TransformCalls("returned")
            n        == Len(chain.agents)
        IN  /\ \A i \in 1..Len(called) :
                  /\ called[i].index = i - 1
                  /\ called[i].step_name = chain.agents[i]
                  /\ called[i].text = IF i = 1 THEN chain.prompt
                                      ELSE returned[i - 1].text
            /\ ChainReturned =>
                  /\ Len(called) = n /\ Len(returned) = n
                  /\ chain.result # None
                  /\ chain.result[1].status = "completed"
                  /\ chain.result[1].error = None
                  /\ Len(chain.result[1].steps) = n
                  /\ \A i \in 1..n :
                        /\ chain.result[1].steps[i].step_index = i - 1
                        /\ chain.result[1].steps[i].step_name = chain.agents[i]
                        /\ chain.result[1].steps[i].input_text = called[i].text
                        /\ chain.result[1].steps[i].output_text = returned[i].text
                  /\ chain.result[1].final_output =
                        IF n = 0 THEN chain.prompt ELSE returned[n].text

\* C26 witness: a run of three steps returned completed, with the output of
\* the third step applied to that of the second applied to that of the first
C26_Witness ==
    /\ ChainReturned
    /\ chain.agents = <<"writer", "editor", "publisher">>
    /\ chain.prompt = "p"
    /\ chain.result[1].status = "completed"
    /\ chain.result[1].final_output = "publisher(editor(writer(p)))"

\* what an event is about: its type and its step or steps
EventShape(e) ==
    CASE e.event = "step_started" ->
            "step_started:" \o ToString(e.data.step_index)
      [] e.event = "step_completed" ->
            "step_completed:" \o ToString(e.data.step_index)
      [] e.event = "message_passed" ->
            "message_passed:" \o e.data.from_step \o ">" \o e.data.to_step
      [] OTHER -> e.event

\* the events of step i of n steps that completed
CompletedStepShapes(i, agents) ==
    <<"step_started:" \o ToString(i), "step_completed:" \o ToString(i)>>
    \o (IF i # Len(agents) - 1
        THEN <<"message_passed:" \o agents[i + 1] \o ">" \o agents[i + 2]>>
        ELSE <<>>)

RECURSIVE CompletedStepsShapes(_, _)
\* the events of the first m steps, all completed
CompletedStepsShapes(m, agents) ==
    IF m = 0 THEN <<>>
    ELSE CompletedStepsShapes(m - 1, agents) \o CompletedStepShapes(m - 1, agents)

\* the events of a whole run in which m steps completed and, if failed, step
\* m raised
RunShapes(m, failed, agents) ==
    <<"pipeline_started">>
    \o CompletedStepsShapes(m, agents)
    \o (IF failed THEN <<"step_started:" \o ToString(m)>> ELSE <<>>)
    \o <<"pipeline_completed">>

\* s is the beginning of t
IsPrefix(s, t) == Len(s) <= Len(t) /\ \A i \in 1..Len(s) : s[i] = t[i]

\* C27: the events a configured handler has received are the beginning of,
\* and at the return of run all of: pipeline_started; for each step i that
\* completed, step_started(i), step_completed(i) and, if and only if i is
\* not the last step, message_passed(i -> i+1); for a step whose transform
\* raised, step_started only, and nothing of any later step; and one
\* pipeline_completed, last.
C27_ChainEventSequence ==
    handler = "ok" =>
        LET shapes == [i \in 1..Len(events) |-> EventShape(events[i])]
            m      == Len(TransformCalls("returned"))
            failed == TransformCalls("raised") # <<>>
        IN  /\ \E f \in BOOLEAN : \E k \in m..Len(chain.agents) :
                  IsPrefix(shapes, RunShapes(k, f, chain.agents))
            /\ ChainReturned => shapes = RunShapes(m, failed, chain.agents)

\* C27 witness: a handler received the six events of a run of three steps
\* whose second transform raised
C27_Witness ==
    /\ ChainReturned
    /\ handler = "ok"
    /\ Len(chain.agents) = 3
    /\ TransformCalls("raised") # <<>>
    /\ Len(events) = 6
    /\ events[4].event = "message_passed"
    /\ events[5].event = "step_started"
    /\ events[6].event = "pipeline_completed"

----------------------------------------------------------------------------
(* RouterResult.total_tokens (agents/router/models.py), read from a         *)
(* RouterResult with any executions and any synthesis                       *)

\* Longest executions list of the RouterResult.
MaxExecutions == 2

\* Largest token count of one entry.
MaxTokens == 1

TokenKeys == {"input", "output"}

\* The tokens dicts: a key may be missing
TokenDicts == UNION {[K -> 0..MaxTokens] : K \in SUBSET TokenKeys}

\* tokens.get(key, 0)
TokensGet(tokens, key) == IF key \in DOMAIN tokens THEN tokens[key] ELSE 0

\* The ExecutionResults of the RouterResult, as far as total_tokens reads
\* them
TokenExecutions == [success : BOOLEAN, tokens : TokenDicts]

RECURSIVE SumTokens(_, _)
\* sum(e.tokens.get(key, 0) for e in executions)
SumTokens(executions, key) ==
    IF executions = <<>> THEN 0
    ELSE TokensGet(Head(executions).tokens, key) + SumTokens(Tail(executions), key)

\* RouterResult.total_tokens
total_tokens_WithoutSynthesis(res) ==
    LET total_input  == SumTokens(res.executions, "input")
        total_output == SumTokens(res.executions, "output")
    IN  [input  |-> total_input,
         output |-> total_output,
         total  |-> total_input + total_output]

total_tokens(res) ==
    LET total_input  == SumTokens(res.executions, "input")
                        + (IF res.synthesis # None
                           THEN TokensGet(res.synthesis[1].tokens, "input")
                           ELSE 0)
        total_output == SumTokens(res.executions, "output")
                        + (IF res.synthesis # None
                           THEN TokensGet(res.synthesis[1].tokens, "output")
                           ELSE 0)
    IN  [input  |-> total_input,
         output |-> total_output,
         total  |-> total_input + total_output]

InitTokens ==
    /\ orch = "none"
    /\ handler = "none"
    /\ registry = <<>>
    /\ pc = "idle"
    /\ \E executions \in SeqsUpTo(TokenExecutions, MaxExecutions) :
       \E synthesis \in {None} \cup {Some([tokens |-> t]) : t \in TokenDicts} :
          result = [InitialResult EXCEPT !.executions = executions,
                                         !.synthesis = synthesis]
    /\ results = <<>>
    /\ idx = 0
    /\ cur = 0
    /\ calls = <<>>
    /\ synthArgs = <<>>
    /\ events = <<>>
    /\ escaped = [step |-> "none", msg |-> ""]
    /\ tracked = [status |-> "none", error |-> None]
    /\ ComponentsIdle
    /\ WiredAtStart

\* a caller reads result.total_tokens
ReadTotalTokens ==
    /\ pc = "idle"
    /\ directCalls = <<>>
    /\ directCalls' = <<DirectCall("total_tokens", <<>>, total_tokens(result))>>
    /\ UNCHANGED <<orch, handler, registry, pc, result, results, idx, cur,
                   calls, synthArgs, events, escaped, tracked, chain, stream,
                   wiring, research, pipelines, storage>>

NextTokens == ReadTotalTokens

SpecTokens == InitTokens /\ [][NextTokens]_vars

\* the token count of one entry (0 for a missing key) summed over the
\* executions of the given indices
TokensOf(S, key) ==
    LET RECURSIVE Sum(_)
        Sum(T) == IF T = {} THEN 0
                  ELSE LET i == CHOOSE j \in T : TRUE
                       IN  TokensGet(result.executions[i].tokens, key)
                           + Sum(T \ {i})
    IN  Sum(S)

\* C28: total_tokens is, for input and for output, the sum of the counts of
\* the successful executions, of the failed executions and, when there is a
\* synthesis, of the synthesis; its total is input plus output; with no
\* execution and no synthesis all three are zero.
C28_TotalTokens ==
    \A k \in CallsOf("total_tokens") :
        LET value == directCalls[k].value
            ok    == {i \in 1..Len(result.executions) : result.executions[i].success}
            bad   == {i \in 1..Len(result.executions) : ~result.executions[i].success}
            synth(key) == IF result.synthesis = None THEN 0
                          ELSE TokensGet(result.synthesis[1].tokens, key)
        IN  /\ \A key \in TokenKeys :
                  value[key] = TokensOf(ok, key) + TokensOf(bad, key) + synth(key)
            /\ value.total = value.input + value.output
            /\ (result.executions = <<>> /\ result.synthesis = None) =>
                  value = [input |-> 0, output |-> 0, total |-> 0]

\* C28 witness: total_tokens was read from a result with a successful and a
\* failed execution and a synthesis, each with a token count, and gave their
\* sum
C28_Witness ==
    /\ CallsOf("total_tokens") # {}
    /\ Len(result.executions) = 2
    /\ result.executions[1].success /\ ~result.executions[2].success
    /\ result.executions[2].tokens = [input |-> 1, output |-> 0]
    /\ result.synthesis # None
    /\ directCalls[1].value = [input |-> 3, output |-> 2, total |-> 5]

----------------------------------------------------------------------------
(* AnalyzerAgent.analyze (agents/router/analyzer.py) inside a task          *)
(*                                                                          *)
(* The text the model call returns is a sequence of pieces: a code fence,   *)
(* the word json, prose, or a JSON document.  White space between pieces is *)
(* left out: strip() and json.loads ignore it.                              *)

\* Longest response text, in pieces.
MaxResponse == 4

\* the code fence: three backticks
Fence == "fence"

\* JSON documents: an object with a capabilities list and a subtasks object,
\* an object with neither key, an array, and an object whose capabilities
\* entry is a string
JsonDocs == {"doc_valid", "doc_empty_object", "doc_array", "doc_caps_string"}

Pieces == {Fence, "json", "text"} \cup JsonDocs

\* What self.think gives: a response text, or an exception
ThinkOutcomes ==
    {[raised |-> FALSE, response |-> r] : r \in SeqsUpTo(Pieces, MaxResponse)}
    \cup {[raised |-> TRUE, response |-> <<>>]}

TaskIds == {"task-1", "task-2"}

\* position of the first occurrence of a fence followed by json in the text (0: none)
FindFenceJson(text) ==
    LET S == {i \in 1..(Len(text) - 1) : text[i] = Fence /\ text[i + 1] = "json"}
    IN  IF S = {} THEN 0 ELSE CHOOSE i \in S : \A j \in S : i <= j

\* position of the first occurrence of a fence in the text (0: none)
FindFence(text) ==
    LET S == {i \in 1..Len(text) : text[i] = Fence}
    IN  IF S = {} THEN 0 ELSE CHOOSE i \in S : \A j \in S : i <= j

\* text.split(fence)[0]
BeforeFence(text) ==
    IF FindFence(text) = 0 THEN text ELSE SubSeq(text, 1, FindFence(text) - 1)

\* the text handed to json.loads: the content of the first fenced json block,
\* else of the first fenced block, else the whole response
JsonText(response) ==
    IF FindFenceJson(response) # 0
    THEN BeforeFence(SubSeq(response, FindFenceJson(response) + 2, Len(response)))
    ELSE IF FindFence(response) # 0
    THEN BeforeFence(SubSeq(response, FindFence(response) + 1, Len(response)))
    ELSE response

\* json.loads succeeds on a text that is one JSON document
JsonLoads(text) ==
    IF Len(text) = 1 /\ text[1] \in JsonDocs
    THEN [ok |-> TRUE, doc |-> text[1]]
    ELSE [ok |-> FALSE, doc |-> ""]

\* AnalysisResult(task_id, detected_capabilities, subtasks)
AnalysisResult(task_id, detected_capabilities, subtasks) ==
    [task_id               |-> task_id,
     detected_capabilities |-> detected_capabilities,
     subtasks              |-> subtasks]

EmptyAnalysis(task_id) == AnalysisResult(task_id, <<>>, AnalysisSubtasks({}))

\* The exception raised inside the try block of analyze ("none" if none):
\* by self.think, by json.loads, by parsed.get on a value that is no dict,
\* or by the validation of AnalysisResult's fields
AnalyzeException(outcome) ==
    IF outcome.raised THEN "Exception"
    ELSE LET parsed == JsonLoads(JsonText(outcome.response))
         IN  IF ~parsed.ok THEN "JSONDecodeError"
             ELSE IF parsed.doc = "doc_array" THEN "AttributeError"
             ELSE IF parsed.doc = "doc_caps_string" THEN "ValidationError"
             ELSE "none"

\* The AnalysisResult of the try block for a document that passes
ParsedAnalysis(task_id, doc) ==
    IF doc = "doc_valid"
    THEN AnalysisResult(task_id, <<"calculation", "creative_writing">>,
                        AnalysisSubtasks({"calculation", "creative_writing"}))
    ELSE EmptyAnalysis(task_id)

\* AnalyzerAgent.analyze: what it returns, or that an exception leaves it
analyze_CatchesDecodeErrorOnly(task_id, outcome) ==
    LET exception == AnalyzeException(outcome)
    IN  IF exception = "none"
        THEN [raised |-> FALSE,
              result |-> ParsedAnalysis(task_id,
                            JsonLoads(JsonText(outcome.response)).doc)]
        ELSE IF exception = "JSONDecodeError"
        THEN [raised |-> FALSE, result |-> EmptyAnalysis(task_id)]
        ELSE [raised |-> TRUE, result |-> EmptyAnalysis(task_id)]

analyze(task_id, outcome) ==
    LET exception == AnalyzeException(outcome)
    IN  IF exception = "none"
        THEN [raised |-> FALSE,
              result |-> ParsedAnalysis(task_id,
                            JsonLoads(JsonText(outcome.response)).doc)]
        ELSE [raised |-> FALSE, result |-> EmptyAnalysis(task_id)]

InitAnalyzer ==
    /\ orch \in {"router", "graph"}
    /\ handler = "none"
    /\ registry \in {<<>>, <<"calc", "writer">>}
    /\ pc = "start"
    /\ result = InitialResult
    /\ results = <<>>
    /\ idx = 0
    /\ cur = 0
    /\ calls = <<>>
    /\ synthArgs = <<>>
    /\ events = <<>>
    /\ escaped = [step |-> "none", msg |-> ""]
    /\ tracked = [status |-> "none", error |-> None]
    /\ ComponentsIdle
    /\ WiredAtStart

\* route from the call of analyzer.analyze to the end of the analysis phase
RouteAnalyze ==
    /\ orch = "router"
    /\ pc = "analyze"
    /\ \E task_id \in TaskIds : \E outcome \in ThinkOutcomes :
          LET a        == analyze(task_id, outcome)
              analysed == [result EXCEPT
                              !.detected = a.result.detected_capabilities,
                              !.subtasks = a.result.subtasks]
          IN  /\ directCalls' = Append(directCalls,
                    DirectCall("analyze", <<task_id, outcome>>, a))
              /\ IF a.raised
                 THEN /\ result' = FailedResult(result, "")
                      /\ events' = Emit(events,
                            <<Ev("routing_completed", "failed", "", "")>>)
                      /\ escaped' = [step |-> "analysis", msg |-> ""]
                      /\ pc' = "done"
                 ELSE IF a.result.detected_capabilities = <<>>
                 THEN /\ result' = [analysed EXCEPT
                            !.status = "completed",
                            !.final_output = "No capabilities detected for this task."]
                      /\ events' = Emit(events,
                            <<Ev("analysis_completed", "", "", ""),
                              Ev("routing_completed", "completed", "", "")>>)
                      /\ escaped' = escaped
                      /\ pc' = "done"
                 ELSE /\ result' = [analysed EXCEPT !.status = "discovering"]
                      /\ events' = Emit(events,
                            <<Ev("analysis_completed", "", "", "")>>)
                      /\ escaped' = escaped
                      /\ pc' = "discover"
    /\ UNCHANGED <<orch, handler, registry, results, idx, cur, calls,
                   synthArgs, tracked, chain, stream, wiring,
                   research, pipelines, storage>>

\* analyze_node from the call of analyzer.analyze to its return
GraphAnalyze ==
    /\ orch = "graph"
    /\ pc = "analyze"
    /\ \E task_id \in TaskIds : \E outcome \in ThinkOutcomes :
          LET a == analyze(task_id, outcome)
          IN  /\ directCalls' = Append(directCalls,
                    DirectCall("analyze", <<task_id, outcome>>, a))
              /\ IF a.raised
                 THEN /\ tracked' = [status |-> "failed", error |-> Some("")]
                      /\ events' = GraphEmit(events,
                            <<Ev("execution_failed", "", "", "")>>)
                      /\ result' = GraphFailedState("")
                      /\ escaped' = [step |-> "analysis", msg |-> ""]
                      /\ pc' = "done"
                 ELSE /\ result' = [result EXCEPT
                            !.detected = result.detected
                                         \o a.result.detected_capabilities,
                            !.subtasks = a.result.subtasks,
                            !.dependencies = None,
                            !.status = "analyzed"]
                      /\ events' = GraphEmit(events,
                            <<Ev("update_node", "analyze", "completed", "")>>
                            \o CapabilityNodeEvents(a.result.detected_capabilities))
                      /\ UNCHANGED <<tracked, escaped>>
                      /\ pc' = "discover"
    /\ UNCHANGED <<orch, handler, registry, results, idx, cur, calls,
                   synthArgs, chain, stream, wiring,
                   research, pipelines, storage>>

NextAnalyzer ==
    \/ RouteStart
    \/ RouteAnalyze
    \/ RouteDiscover
    \/ ExecuteAllStep
    \/ AgentReturn
    \/ AgentRaise
    \/ RouteDecide
    \/ RouteSynthReturn
    \/ RouteSynthRaise
    \/ GraphStart
    \/ GraphAnalyze
    \/ GraphDiscover
    \/ GraphExecuteStart
    \/ GraphExecuteEnd
    \/ GraphSynthesizeStart
    \/ GraphSynthReturn
    \/ GraphSynthRaise
    \/ GraphEnd

SpecAnalyzer == InitAnalyzer /\ [][NextAnalyzer]_vars

\* the response has no JSON document of the expected shape in it, or the
\* model call raised
NothingToParse(outcome) ==
    \/ outcome.raised
    \/ \A i \in 1..Len(outcome.response) :
          outcome.response[i] \notin {"doc_valid", "doc_empty_object"}

\* once the task has ended, it has ended as completed with the
\* no-capabilities message
EndsWithNoCapabilities ==
    pc = "done" =>
        /\ result.status = "completed"
        /\ result.final_output = "No capabilities detected for this task."

\* C29: analyze does not raise, whatever the model call gives; it returns an
\* AnalysisResult for the task id it was given; a document alone and the same
\* document in a fenced json block give the same result; a response with nothing
\* to parse, or a model call that raised, gives an empty capability list,
\* and the orchestrator then ends the task as completed with the
\* no-capabilities message.
C29_AnalyzeNeverRaises ==
    \A k \in CallsOf("analyze") :
        LET task_id == directCalls[k].args[1]
            outcome == directCalls[k].args[2]
            a       == directCalls[k].value
        IN  /\ ~a.raised
            /\ a.result.task_id = task_id
            /\ \A d \in JsonDocs :
                  outcome.response = <<Fence, "json", d, Fence>> =>
                     a.result = analyze(task_id,
                                   [raised |-> FALSE, response |-> <<d>>]).result
            /\ NothingToParse(outcome) =>
                  /\ a.result.detected_capabilities = <<>>
                  /\ EndsWithNoCapabilities

\* C29 for the tasks of SmartRouter.route only
C29_AnalyzeNeverRaisesInRoute == orch = "router" => C29_AnalyzeNeverRaises

----------------------------------------------------------------------------
(* GraphRunner.stream (agents/graph/runner.py)                              *)
(*                                                                          *)
(* stream puts execution_started into the queue itself and run_graph puts   *)
(* the terminal event and the end-of-stream value None itself.  The writer  *)
(* the nodes get is lambda e: asyncio.create_task(stream_writer(e)): a      *)
(* graph_update is only scheduled when a node emits it, and is put into the *)
(* queue when the event loop runs the scheduled tasks, which it does, in    *)
(* the order of their creation, once the task of run_graph is suspended or  *)
(* has ended.  Whether an await inside graph.ainvoke suspends depends on    *)
(* the awaited collaborator and on the graph library, so the scheduled puts *)
(* may run at any await or node boundary, or only after run_graph has       *)
(* ended.  `events` holds the graph_update events in the order the nodes    *)
(* emitted them; `stream` holds the queue, how many of the emitted events   *)
(* have been put, and what the consumer of the generator has received.      *)

\* the value None that run_graph puts last
EndOfStream == Ev("end_of_stream", "", "", "")

InitStream ==
    /\ orch = "graph"
    /\ handler = "none"
    /\ registry \in {<<>>, <<"calc", "writer">>}
    /\ pc = "start"
    /\ result = InitialResult
    /\ results = <<>>
    /\ idx = 0
    /\ cur = 0
    /\ calls = <<>>
    /\ synthArgs = <<>>
    /\ events = <<>>
    /\ escaped = [step |-> "none", msg |-> ""]
    /\ tracked = [status |-> "none", error |-> None]
    /\ directCalls = <<>>
    /\ chain = None
    /\ stream = [queue    |-> <<>>,
                 put      |-> 0,
                 taken    |-> 0,
                 received |-> <<>>,
                 closed   |-> FALSE]
    /\ WiredAtStart
    /\ research = None
    /\ pipelines = None
    /\ storage = None

\* stream up to its first event_queue.get, and run_graph up to the await of
\* analyzer.analyze in analyze_node
StreamStart ==
    /\ orch = "graph"
    /\ pc = "start"
    /\ tracked' = [tracked EXCEPT !.status = "running"]
    /\ stream' = [stream EXCEPT
          !.queue = Append(stream.queue, Ev("execution_started", "", "", ""))]
    /\ events' = GraphEmit(events, <<Ev("add_node", "analyze", "running", "")>>)
    /\ pc' = "analyze"
    /\ UNCHANGED <<orch, handler, registry, result, results, idx, cur, calls,
                   synthArgs, escaped, directCalls, chain, wiring,
                   research, pipelines, storage>>

\* the event loop runs the scheduled stream_writer tasks: every graph_update
\* emitted and not yet put is put, in the order of emission
StreamFlush ==
    /\ orch = "graph"
    /\ stream.put < Len(events)
    /\ stream' = [stream EXCEPT
          !.queue = stream.queue \o SubSeq(events, stream.put + 1, Len(events)),
          !.put   = Len(events)]
    /\ UNCHANGED <<orch, handler, registry, pc, result, results, idx, cur,
                   calls, synthArgs, events, escaped, tracked, directCalls,
                   chain, wiring, research, pipelines, storage>>

\* graph.ainvoke returns: run_graph puts execution_completed and None
StreamGraphReturn ==
    /\ orch = "graph"
    /\ pc = "end"
    /\ stream' = [stream EXCEPT
          !.queue = stream.queue \o
                    <<Ev("execution_completed", "completed", "", ""), EndOfStream>>]
    /\ pc' = "done"
    /\ UNCHANGED <<orch, handler, registry, result, results, idx, cur, calls,
                   synthArgs, events, escaped, tracked, directCalls, chain,
                   wiring, research, pipelines, storage>>

\* an exception leaves the analyzer or the synthesizer and with it
\* graph.ainvoke: run_graph puts execution_failed and None
StreamGraphRaise ==
    /\ orch = "graph"
    /\ pc \in {"analyze", "synth"}
    /\ \E msg \in Messages :
          /\ stream' = [stream EXCEPT
                !.queue = stream.queue \o
                          <<Ev("execution_failed", msg, "", ""), EndOfStream>>]
          /\ escaped' = [step |-> IF pc = "analyze" THEN "analysis" ELSE "synthesis",
                         msg  |-> msg]
    /\ pc' = "done"
    /\ UNCHANGED <<orch, handler, registry, result, results, idx, cur, calls,
                   synthArgs, events, tracked, directCalls, chain, wiring,
                   research, pipelines, storage>>

\* the items of the queue the consumer has not taken, up to and including
\* the first None
Available ==
    LET rest == SubSeq(stream.queue, stream.taken + 1, Len(stream.queue))
        S    == {i \in 1..Len(rest) : rest[i] = EndOfStream}
    IN  IF S = {} THEN rest
        ELSE SubSeq(rest, 1, CHOOSE i \in S : \A j \in S : i <= j)

\* the loop of stream: every item got from the queue is yielded, None ends
\* the loop
StreamConsume ==
    /\ orch = "graph"
    /\ ~stream.closed
    /\ Available # <<>>
    /\ stream' = [stream EXCEPT
          !.taken    = stream.taken + Len(Available),
          !.received = stream.received
                       \o SelectSeq(Available, LAMBDA e : e # EndOfStream),
          !.closed   = Available[Len(Available)] = EndOfStream]
    /\ UNCHANGED <<orch, handler, registry, pc, result, results, idx, cur,
                   calls, synthArgs, events, escaped, tracked, directCalls,
                   chain, wiring, research, pipelines, storage>>

NextStream ==
    \/ StreamStart
    \/ GraphAnalyzeReturn
    \/ GraphDiscover
    \/ GraphExecuteStart
    \/ ExecuteAllStep
    \/ AgentReturn
    \/ AgentRaise
    \/ GraphExecuteEnd
    \/ GraphSynthesizeStart
    \/ GraphSynthReturn
    \/ StreamGraphReturn
    \/ StreamGraphRaise
    \/ StreamFlush
    \/ StreamConsume

SpecStream == InitStream /\ [][NextStream]_vars

TerminalEvents == {"execution_completed", "execution_failed"}

\* the graph_update events among the events the consumer has received
ReceivedUpdates ==
    SelectSeq(stream.received,
              LAMBDA e : e.type \notin TerminalEvents \cup {"execution_started"})

C30_Witness ==
    /\ stream.closed
    /\ stream.received[Len(stream.received)].type = "execution_completed"
    /\ ReceivedUpdates = events
    /\ Len(events) > 8

----------------------------------------------------------------------------
(* GraphRunner.get_events (agents/graph/runner.py) for a task of            *)
(* GraphRunner.run                                                          *)
(*                                                                          *)
(* run creates the queue of the task and stores it in _event_queues; its    *)
(* stream_writer schedules the put of every event, the terminal event       *)
(* included.  `events` holds the events in the order stream_writer was      *)
(* called, and StreamFlush is the event loop running the scheduled puts.    *)
(* get_events looks the queue up once and then yields what it gets from it  *)
(* until it gets None.                                                      *)

InitEvents ==
    /\ orch = "graph"
    /\ handler = "none"
    /\ registry \in {<<>>, <<"calc", "writer">>}
    /\ pc = "start"
    /\ result = InitialResult
    /\ results = <<>>
    /\ idx = 0
    /\ cur = 0
    /\ calls = <<>>
    /\ synthArgs = <<>>
    /\ events = <<>>
    /\ escaped = [step |-> "none", msg |-> ""]
    /\ tracked = [status |-> "none", error |-> None]
    /\ directCalls = <<>>
    /\ chain = None
    /\ stream = [queue      |-> <<>>,
                 put        |-> 0,
                 taken      |-> 0,
                 received   |-> <<>>,
                 closed     |-> FALSE,
                 registered |-> FALSE,
                 consumer   |-> "none"]
    /\ WiredAtStart
    /\ research = None
    /\ pipelines = None
    /\ storage = None

\* GraphRunner.run up to the await of analyzer.analyze in analyze_node: the
\* queue is created and stored under the task id
EventsRunStart ==
    /\ orch = "graph"
    /\ pc = "start"
    /\ tracked' = [tracked EXCEPT !.status = "running"]
    /\ stream' = [stream EXCEPT !.registered = TRUE]
    /\ events' = GraphEmit(events,
          <<Ev("execution_started", "", "", ""),
            Ev("add_node", "analyze", "running", "")>>)
    /\ pc' = "analyze"
    /\ UNCHANGED <<orch, handler, registry, result, results, idx, cur, calls,
                   synthArgs, escaped, directCalls, chain, wiring,
                   research, pipelines, storage>>

\* get_events up to its first queue.get: without a queue under the task id
\* the generator returns at once
GetEvents ==
    /\ orch = "graph"
    /\ stream.consumer = "none"
    /\ stream' = [stream EXCEPT
          !.consumer = IF stream.registered THEN "reading" ELSE "no_queue",
          !.closed   = ~stream.registered]
    /\ UNCHANGED <<orch, handler, registry, pc, result, results, idx, cur,
                   calls, synthArgs, events, escaped, tracked, directCalls,
                   chain, wiring, research, pipelines, storage>>

\* the loop of get_events: every item got from the queue is yielded, None
\* ends the loop
GetEventsConsume ==
    /\ orch = "graph"
    /\ stream.consumer = "reading"
    /\ ~stream.closed
    /\ Available # <<>>
    /\ stream' = [stream EXCEPT
          !.taken    = stream.taken + Len(Available),
          !.received = stream.received
                       \o SelectSeq(Available, LAMBDA e : e # EndOfStream),
          !.closed   = Available[Len(Available)] = EndOfStream]
    /\ UNCHANGED <<orch, handler, registry, pc, result, results, idx, cur,
                   calls, synthArgs, events, escaped, tracked, directCalls,
                   chain, wiring, research, pipelines, storage>>

NextEvents ==
    \/ EventsRunStart
    \/ GraphAnalyzeReturn
    \/ GraphAnalyzeRaise
    \/ GraphDiscover
    \/ GraphExecuteStart
    \/ ExecuteAllStep
    \/ AgentReturn
    \/ AgentRaise
    \/ GraphExecuteEnd
    \/ GraphSynthesizeStart
    \/ GraphSynthReturn
    \/ GraphSynthRaise
    \/ GraphEnd
    \/ StreamFlush
    \/ GetEvents
    \/ GetEventsConsume

\* The event loop runs every coroutine and every scheduled task that can
\* take a step.
SpecEvents == InitEvents /\ [][NextEvents]_vars /\ WF_vars(NextEvents)

\* C31: once the task of GraphRunner.run has finished, a get_events that
\* found the queue of the task ends, having delivered the events of the
\* task, and the queue of the task is removed from _event_queues.
C31_EventsEndAndQueueReleased ==
    (pc = "done" /\ stream.consumer = "reading")
    ~> ( /\ stream.closed
         /\ stream.received = events
         /\ ~stream.registered )

\* the part of C31 that holds: the events are delivered, in order
C31_EventsDelivered ==
    (pc = "done" /\ stream.consumer = "reading")
    ~> (stream.received = events)

\* get_events of a finished task never ends
C31_EventsEnd ==
    (pc = "done" /\ stream.consumer = "reading") ~> stream.closed

\* the queue of a finished task is never removed
C31_QueueReleased == (pc = "done") ~> ~stream.registered

----------------------------------------------------------------------------
(* Status of the graph state (agents/graph/state.py)                        *)

\* VALID_STATUSES
VALID_STATUSES ==
    {"pending", "analyzing", "discovering", "executing", "synthesizing",
     "completed", "failed"}

\* C32: in every state of a graph execution - the initial state, the state
\* after each node and the state the runner returns - the status is one of
\* VALID_STATUSES.
C32_GraphStatusIsValid ==
    orch = "graph" => result.status \in VALID_STATUSES

\* the statuses a graph execution does take
C32_GraphStatusTaken ==
    orch = "graph" =>
       result.status \in {"pending", "analyzed", "discovered", "executed",
                          "completed", "failed"}

----------------------------------------------------------------------------
(* Wiring of the graph nodes (agents/graph/nodes.py, graph.py, runner.py)   *)
(*                                                                          *)
(* The nodes read their collaborators from module-level references that     *)
(* every build_router_graph call overwrites.  Before the task starts, the   *)
(* runner of the task and a second runner are constructed in either order,  *)
(* and agents can be registered in the registry of the task's runner after  *)
(* its construction.  `registry` is the registry of the task's runner.      *)

InitWiring ==
    /\ orch = "graph"
    /\ handler = "none"
    /\ registry \in {<<>>, <<"calc">>}
    /\ pc = "start"
    /\ result = InitialResult
    /\ results = <<>>
    /\ idx = 0
    /\ cur = 0
    /\ calls = <<>>
    /\ synthArgs = <<>>
    /\ events = <<>>
    /\ escaped = [step |-> "none", msg |-> ""]
    /\ tracked = [status |-> "none", error |-> None]
    /\ ComponentsIdle
    /\ wiring = NotWired

\* GraphRunner(registry, storage) for the runner of the task
BuildRunner ==
    /\ pc = "start"
    /\ "self" \notin wiring.runners
    /\ wiring' = GraphRunnerInit(wiring, "self", registry)
    /\ UNCHANGED <<orch, handler, registry, pc, result, results, idx, cur,
                   calls, synthArgs, events, escaped, tracked, directCalls,
                   chain, stream, research, pipelines, storage>>

\* GraphRunner(other_registry, other_storage): a second runner
BuildOtherRunner ==
    /\ pc = "start"
    /\ "other" \notin wiring.runners
    /\ wiring' = GraphRunnerInit(wiring, "other", OtherRegistry)
    /\ UNCHANGED <<orch, handler, registry, pc, result, results, idx, cur,
                   calls, synthArgs, events, escaped, tracked, directCalls,
                   chain, stream, research, pipelines, storage>>

\* registry.register(agent) on the registry of the task's runner, after the
\* runner has been constructed
RegisterAfterBuild ==
    /\ pc = "start"
    /\ "self" \in wiring.runners
    /\ \E agent \in {"calc", "writer"} :
          /\ ~register(registry, agent, FALSE).raised
          /\ registry' = register(registry, agent, FALSE).agents
    /\ UNCHANGED <<orch, handler, pc, result, results, idx, cur, calls,
                   synthArgs, events, escaped, tracked, directCalls, chain,
                   stream, wiring, research, pipelines, storage>>

NextWiring ==
    \/ BuildRunner
    \/ BuildOtherRunner
    \/ RegisterAfterBuild
    \/ GraphStart
    \/ GraphAnalyzeReturn
    \/ GraphAnalyzeRaise
    \/ GraphDiscover
    \/ GraphExecuteStart
    \/ ExecuteAllStep
    \/ AgentReturn
    \/ AgentRaise
    \/ GraphExecuteEnd
    \/ GraphSynthesizeStart
    \/ GraphSynthReturn
    \/ GraphSynthRaise
    \/ GraphEnd

SpecWiring == InitWiring /\ [][NextWiring]_vars

\* the agents discovery has matched to a capability
MatchedAgents(capability) ==
    LET S == {i \in 1..Len(result.matches) :
                 result.matches[i].capability = capability}
    IN  IF S = {} THEN <<>> ELSE result.matches[CHOOSE i \in S : TRUE].agent_ids

\* the graph of the task is between discover_node and its end
AfterDiscovery ==
    pc \in {"execute", "exec", "agent", "execret", "synthesize", "synth", "end"}

\* the task used the collaborators of its own runner: the analyzer and the
\* synthesizer the nodes refer to are its own, the agents matched to every
\* detected capability are those of its own registry, and every agent
\* called is registered there
UsesOwnCollaborators ==
    /\ wiring.analyzer = Some("self")
    /\ wiring.synthesizer = Some("self")
    /\ AfterDiscovery =>
          \A c \in Range(result.detected) :
             MatchedAgents(c) = find_by_capability(registry, c)
    /\ \A k \in 1..Len(calls) : calls[k].agent \in Range(registry)

\* C33: a task run on a GraphRunner is analysed, discovered and executed
\* with the collaborators the runner was constructed with, whether or not
\* its registry held agents at construction and whether or not another
\* runner was constructed before the run.
C33_RunUsesOwnCollaborators ==
    (orch = "graph" /\ pc # "start") => UsesOwnCollaborators

\* what holds: the task uses its own collaborators when its runner was the
\* last one constructed and its registry held an agent at that moment
C33_OwnWhenWiredLast ==
    (orch = "graph" /\ pc # "start"
       /\ wiring.registry = Some("self") /\ wiring.executor = Some("self")
       /\ wiring.analyzer = Some("self"))
    => UsesOwnCollaborators

----------------------------------------------------------------------------
(* Unregistration while a task is in flight (agents/registry.py,            *)
(* agents/router/executor.py)                                               *)
(*                                                                          *)
(* Between discovery and the end of execute_all, something other than the   *)
(* task calls registry.unregister.  Each such call is logged with the       *)
(* number of matches whose iteration of the loop of execute_all had begun.  *)

\* Most unregister calls during one task.
MaxUnregistered == 1

\* registry.unregister(agent_id), called while the task is between
\* discovery and the return of execute_all
UnregisterInFlight ==
    /\ pc \in {"execute", "exec", "agent"}
    /\ Len(directCalls) < MaxUnregistered
    /\ \E agent_id \in AgentIds :
          LET r == unregister(registry, agent_id)
          IN  /\ registry' = r.agents
              /\ directCalls' = Append(directCalls,
                    DirectCall("unregister", agent_id,
                       [removed |-> r.removed,
                        reached |-> IF pc = "execute" THEN 0
                                    ELSE IF pc = "agent" THEN idx
                                    ELSE idx - 1]))
    /\ UNCHANGED <<orch, handler, pc, result, results, idx, cur, calls,
                   synthArgs, events, escaped, tracked, chain, stream,
                   wiring, research, pipelines, storage>>

NextInFlight ==
    \/ Next
    \/ UnregisterInFlight

SpecInFlight == Init /\ [][NextInFlight]_vars

\* the agent selected for match j was unregistered before the loop of
\* execute_all reached the match
GoneBefore(j) ==
    \E k \in CallsOf("unregister") :
       /\ directCalls[k].args = SelectAgent(result.matches[j])
       /\ directCalls[k].value.removed # None
       /\ directCalls[k].value.reached < j

\* the indices of the matches execute_all has to execute, in order: matched,
\* with a subtask text, and with the selected agent still registered when
\* the loop reaches them
StillExecutable ==
    SelectSeq([j \in 1..Len(result.matches) |-> j],
              LAMBDA j : /\ result.matches[j].matched
                         /\ result.subtasks[result.matches[j].capability] # ""
                         /\ ~GoneBefore(j))

\* C34: when the agent selected for a capability is unregistered before its
\* execution starts, execute_all does not raise and does not call another
\* agent of the match: it returns one result for every other executable
\* match, in order, and none for that capability, and the task ends
\* completed unless the analyzer or the synthesizer raised.  (The state a
\* failed graph run returns holds no matches to compare the calls with.)
C34_UnregisteredAgentIsSkipped ==
    /\ ExecuteAllReturned =>
          /\ Len(results) = Len(StillExecutable)
          /\ \A k \in 1..Len(results) :
                LET m == result.matches[StillExecutable[k]]
                IN  /\ results[k].capability = m.capability
                    /\ results[k].agent_id = SelectAgent(m)
    /\ result.matches # <<>> =>
          \A k \in 1..Len(calls) :
             \E j \in 1..Len(result.matches) :
                /\ result.matches[j].capability = calls[k].capability
                /\ calls[k].agent = SelectAgent(result.matches[j])
    /\ escaped.step \in {"none", "analysis", "synthesis"}
    /\ (pc = "done" /\ escaped.step = "none") => result.status = "completed"

\* C34 witness: writer, selected for creative_writing, was unregistered
\* while calc was awaited; calc alone was executed and the task completed
C34_Witness ==
    /\ pc = "done"
    /\ result.status = "completed"
    /\ Len(result.matches) = 2
    /\ result.matches[2].agent_ids = <<"writer", "multi">>
    /\ result.subtasks["creative_writing"] # ""
    /\ GoneBefore(2)
    /\ Len(results) = 1
    /\ results[1].agent_id = "calc"
    /\ Len(calls) = 2

----------------------------------------------------------------------------
(* OrchestratorAgent.research (agents/research/orchestrator.py) and         *)
(* MergeAgent.merge_results (agents/research/merge.py)                      *)
(*                                                                          *)
(* research.agents holds the source_name of every search agent, in the      *)
(* order of self.search_agents; research.tasks holds, for each of them, the *)
(* task of search_with_timeout that asyncio.gather runs.  The summary text  *)
(* and the elapsed time of the result are not modelled.                     *)

\* Most search agents of one orchestrator.
MaxSearchAgents == 2

\* Highest relevance of a search result; relevances are 1..MaxRelevance.
MaxRelevance == 2

\* source_name of the search agents; two agents can share one.
Sources == {"web", "docs"}

Titles == {"t1", "t2"}

SearchResult(source, title, relevance) ==
    [source |-> source, title |-> title, relevance |-> relevance]

\* The result lists a search of the given source can return.
SearchOutputs(source) ==
    {<<>>,
     <<SearchResult(source, "t1", MaxRelevance)>>,
     <<SearchResult(source, "t1", 1), SearchResult(source, "t2", 1)>>}

\* a task of search_with_timeout that has not resolved
SearchTask(state) == [state |-> state, outcome |-> "none", value |-> <<>>]

InitResearch ==
    /\ orch = "none"
    /\ handler = "none"
    /\ registry = <<>>
    /\ pc = "research_start"
    /\ result = InitialResult
    /\ results = <<>>
    /\ idx = 0
    /\ cur = 0
    /\ calls = <<>>
    /\ synthArgs = <<>>
    /\ events = <<>>
    /\ escaped = [step |-> "none", msg |-> ""]
    /\ tracked = [status |-> "none", error |-> None]
    /\ directCalls = <<>>
    /\ chain = None
    /\ stream = None
    /\ wiring = NotWired
    /\ pipelines = None
    /\ storage = None
    /\ \E agents \in SeqsUpTo(Sources, MaxSearchAgents) :
          research = [agents |-> agents,
                      tasks  |-> [i \in 1..Len(agents) |-> SearchTask("none")],
                      result |-> None]

\* a research that awaits each search before it creates the next
ResearchStart_OneAtATime ==
    /\ pc = "research_start"
    /\ research' = [research EXCEPT
          !.tasks = [i \in 1..Len(research.agents) |->
                       SearchTask(IF i = 1 THEN "scheduled" ELSE "none")]]
    /\ pc' = "gather"
    /\ UNCHANGED <<orch, handler, registry, result, results, idx, cur, calls,
                   synthArgs, events, escaped, tracked, directCalls, chain,
                   stream, wiring, pipelines, storage>>

\* research up to the await of asyncio.gather: a task is created for the
\* search of every agent
ResearchStart ==
    /\ pc = "research_start"
    /\ research' = [research EXCEPT
          !.tasks = [i \in 1..Len(research.agents) |-> SearchTask("scheduled")]]
    /\ pc' = "gather"
    /\ UNCHANGED <<orch, handler, registry, result, results, idx, cur, calls,
                   synthArgs, events, escaped, tracked, directCalls, chain,
                   stream, wiring, pipelines, storage>>

\* the event loop starts the next task, in the order of creation:
\* search_with_timeout up to the await of wait_for(agent.search(query))
SearchBegin ==
    /\ pc = "gather"
    /\ \E i \in 1..Len(research.tasks) :
          /\ research.tasks[i].state = "scheduled"
          /\ \A j \in 1..(i - 1) : research.tasks[j].state # "scheduled"
          /\ research' = [research EXCEPT !.tasks[i].state = "searching"]
    /\ UNCHANGED <<orch, handler, registry, pc, result, results, idx, cur,
                   calls, synthArgs, events, escaped, tracked, directCalls,
                   chain, stream, wiring, pipelines, storage>>

\* agent.search returns within the timeout
SearchReturn ==
    /\ pc = "gather"
    /\ \E i \in 1..Len(research.tasks) :
       \E found \in SearchOutputs(research.agents[i]) :
          /\ research.tasks[i].state = "searching"
          /\ research' = [research EXCEPT
                !.tasks[i] = [state |-> "done", outcome |-> "returned",
                              value |-> found]]
    /\ UNCHANGED <<orch, handler, registry, pc, result, results, idx, cur,
                   calls, synthArgs, events, escaped, tracked, directCalls,
                   chain, stream, wiring, pipelines, storage>>

\* agent.search raises: except Exception returns the source with no result
SearchRaise ==
    /\ pc = "gather"
    /\ \E i \in 1..Len(research.tasks) :
          /\ research.tasks[i].state = "searching"
          /\ research' = [research EXCEPT
                !.tasks[i] = [state |-> "done", outcome |-> "raised",
                              value |-> <<>>]]
    /\ UNCHANGED <<orch, handler, registry, pc, result, results, idx, cur,
                   calls, synthArgs, events, escaped, tracked, directCalls,
                   chain, stream, wiring, pipelines, storage>>

\* the timeout of wait_for expires first: the search of this task is
\* cancelled and except asyncio.TimeoutError returns the source with no
\* result
SearchTimeout ==
    /\ pc = "gather"
    /\ \E i \in 1..Len(research.tasks) :
          /\ research.tasks[i].state = "searching"
          /\ research' = [research EXCEPT
                !.tasks[i] = [state |-> "done", outcome |-> "timeout",
                              value |-> <<>>]]
    /\ UNCHANGED <<orch, handler, registry, pc, result, results, idx, cur,
                   calls, synthArgs, events, escaped, tracked, directCalls,
                   chain, stream, wiring, pipelines, storage>>

\* the keys of {source: result_list for source, result_list in results}: the
\* sources in the order of their first task
RECURSIVE DictKeys(_)
DictKeys(sources) ==
    IF sources = <<>> THEN <<>>
    ELSE LET front == DictKeys(SubSeq(sources, 1, Len(sources) - 1))
             last  == sources[Len(sources)]
         IN  IF last \in Range(front) THEN front ELSE Append(front, last)

\* the value the dict holds for a source: that of its last task
DictValue(tasks, agents, source) ==
    LET S == {i \in 1..Len(agents) : agents[i] = source}
    IN  tasks[CHOOSE i \in S : \A j \in S : j <= i].value

\* all_results of merge_results: the lists of the dict, in the order of its
\* keys
RECURSIVE Flatten(_, _, _)
Flatten(keys, tasks, agents) ==
    IF keys = <<>> THEN <<>>
    ELSE DictValue(tasks, agents, Head(keys)) \o Flatten(Tail(keys), tasks, agents)

\* all_results.sort(key=relevance, reverse=True): stable, so results of
\* equal relevance keep their order
RECURSIVE SortByRelevance(_, _)
SortByRelevance(all_results, top) ==
    IF top < 1 THEN <<>>
    ELSE SelectSeq(all_results, LAMBDA r : r.relevance = top)
         \o SortByRelevance(all_results, top - 1)

\* a deduplication that keeps the last result of every title
RECURSIVE DedupByTitle_KeepsLast(_)
DedupByTitle_KeepsLast(sorted) ==
    IF sorted = <<>> THEN <<>>
    ELSE LET rest == Tail(sorted)
         IN  IF \E k \in 1..Len(rest) : rest[k].title = Head(sorted).title
             THEN DedupByTitle_KeepsLast(rest)
             ELSE <<Head(sorted)>> \o DedupByTitle_KeepsLast(rest)

\* unique_results of merge_results: the first result of every title
RECURSIVE DedupByTitle(_)
DedupByTitle(sorted) ==
    IF sorted = <<>> THEN <<>>
    ELSE LET front == DedupByTitle(SubSeq(sorted, 1, Len(sorted) - 1))
             last  == sorted[Len(sorted)]
         IN  IF \E k \in 1..Len(front) : front[k].title = last.title
             THEN front
             ELSE Append(front, last)

\* MergeAgent.merge_results
merge_results(tasks, agents) ==
    LET keys           == DictKeys(agents)
        all_results    == SortByRelevance(Flatten(keys, tasks, agents),
                                          MaxRelevance)
        unique_results == DedupByTitle(all_results)
    IN  [results          |-> unique_results,
         sources_searched |-> keys,
         total_results    |-> Len(unique_results)]

\* gather returns once every task has resolved; research merges the results
\* and returns the aggregated result
ResearchMerge ==
    /\ pc = "gather"
    /\ \A i \in 1..Len(research.tasks) : research.tasks[i].state = "done"
    /\ research' = [research EXCEPT
          !.result = Some(merge_results(research.tasks, research.agents))]
    /\ pc' = "research_done"
    /\ UNCHANGED <<orch, handler, registry, result, results, idx, cur, calls,
                   synthArgs, events, escaped, tracked, directCalls, chain,
                   stream, wiring, pipelines, storage>>

NextResearch ==
    \/ ResearchStart
    \/ SearchBegin
    \/ SearchReturn
    \/ SearchRaise
    \/ SearchTimeout
    \/ ResearchMerge

SpecResearch == InitResearch /\ [][NextResearch]_vars

\* the searches of the agents have all been started before any is awaited,
\* a search that raised or timed out counts as an empty list, and nothing
\* but research itself waits for a task
SearchesRunSideBySide ==
    /\ pc \in {"gather", "research_done"} =>
          \A i \in 1..Len(research.tasks) : research.tasks[i].state # "none"
    /\ \A i \in 1..Len(research.tasks) :
          research.tasks[i].outcome \in {"raised", "timeout"} =>
             research.tasks[i].value = <<>>
    /\ pc = "research_done" =>
          /\ research.result # None
          /\ \A i \in 1..Len(research.tasks) : research.tasks[i].state = "done"
          /\ Range(research.result[1].sources_searched) = Range(research.agents)

\* C35: research starts every search before it awaits any, a search that
\* times out or raises contributes an empty list without failing the
\* others, and the aggregated result lists the source of every agent and
\* contains every result of every search that returned in time.
C35_ResearchCollectsEverySearch ==
    /\ SearchesRunSideBySide
    /\ pc = "research_done" =>
          \A i \in 1..Len(research.tasks) :
             research.tasks[i].outcome = "returned" =>
                Range(research.tasks[i].value)
                   \subseteq Range(research.result[1].results)

\* the results merge_results is given: for every source, those of the last
\* agent with that source
Collected ==
    UNION {Range(DictValue(research.tasks, research.agents, source)) :
              source \in Range(research.agents)}

\* C35, amended: as before, but the aggregated result names every source
\* once and holds, for every title among the results collected, exactly
\* one result: one of the highest relevance with that title; its results
\* are in descending order of relevance.  Of several agents with the same
\* source name only the last one is collected.
C35_ResearchCollectsBestPerTitle ==
    /\ SearchesRunSideBySide
    /\ pc = "research_done" =>
          LET merged == research.result[1]
              found  == merged.results
          IN  /\ \A i, j \in 1..Len(merged.sources_searched) :
                    merged.sources_searched[i] = merged.sources_searched[j]
                       => i = j
              /\ merged.total_results = Len(found)
              /\ Range(found) \subseteq Collected
              /\ \A r \in Collected :
                    \E k \in 1..Len(found) :
                       /\ found[k].title = r.title
                       /\ found[k].relevance >= r.relevance
              /\ \A i, j \in 1..Len(found) :
                    /\ found[i].title = found[j].title => i = j
                    /\ i < j => found[i].relevance >= found[j].relevance

\* C35 witness: the first search timed out while the second returned two
\* results, which the aggregated result holds
C35_Witness ==
    /\ pc = "research_done"
    /\ research.agents = <<"web", "docs">>
    /\ research.tasks[1].outcome = "timeout"
    /\ research.tasks[2].outcome = "returned"
    /\ research.result[1].total_results = 2
    /\ research.result[1].sources_searched = <<"web", "docs">>

----------------------------------------------------------------------------
(* The chain endpoints (protocol/chain_router.py) for one pipeline id       *)
(*                                                                          *)
(* pipelines.queued says whether the id is a key of _pipeline_queues,       *)
(* pipelines.stored holds its entry of _pipeline_results, if any, and       *)
(* pipelines.done_put says whether the completion signal has been put into  *)
(* the queue.  The pipeline itself is ChainPipeline.run with the writer,    *)
(* editor and publisher agents.  One client of the events endpoint is       *)
(* modelled; the events forwarded to it are not.                            *)

\* Most calls of the status endpoint during one pipeline.
MaxStatusCalls == 2

InitPipeline ==
    /\ orch = "none"
    /\ handler = "ok"
    /\ registry = <<>>
    /\ pc = "pipeline_accept"
    /\ result = InitialResult
    /\ results = <<>>
    /\ idx = 0
    /\ cur = 0
    /\ calls = <<>>
    /\ synthArgs = <<>>
    /\ events = <<>>
    /\ escaped = [step |-> "none", msg |-> ""]
    /\ tracked = [status |-> "none", error |-> None]
    /\ directCalls = <<>>
    /\ stream = None
    /\ wiring = NotWired
    /\ research = None
    /\ storage = None
    /\ \E prompt \in Prompts :
          chain = [agents        |-> <<"writer", "editor", "publisher">>,
                   prompt        |-> prompt,
                   index         |-> 0,
                   step_results  |-> <<>>,
                   current_text  |-> prompt,
                   error_message |-> None,
                   result        |-> None]
    /\ pipelines = [queued   |-> FALSE,
                    stored   |-> None,
                    done_put |-> FALSE,
                    client   |-> "none"]

\* run_pipeline: the queue of the id is created and the background task is
\* added
RunPipeline ==
    /\ pc = "pipeline_accept"
    /\ pipelines' = [pipelines EXCEPT !.queued = TRUE]
    /\ pc' = "chain_start"
    /\ UNCHANGED <<orch, handler, registry, result, results, idx, cur, calls,
                   synthArgs, events, escaped, tracked, directCalls, chain,
                   stream, wiring, research, storage>>

\* _run_pipeline_background after pipeline.run has returned: the result is
\* stored, and the completion signal is put if the id still has a queue
StorePipelineResult ==
    /\ pc = "chain_done"
    /\ pipelines' = [pipelines EXCEPT !.stored = chain.result,
                                      !.done_put = pipelines.queued]
    /\ pc' = "pipeline_stored"
    /\ UNCHANGED <<orch, handler, registry, result, results, idx, cur, calls,
                   synthArgs, events, escaped, tracked, directCalls, chain,
                   stream, wiring, research, storage>>

\* _event_generator up to its first queue.get: without a queue under the id
\* it yields an error and returns
EventsConnect ==
    /\ pipelines # None
    /\ pipelines.client = "none"
    /\ pipelines' = [pipelines EXCEPT
          !.client = IF pipelines.queued THEN "connected" ELSE "not_found"]
    /\ UNCHANGED <<orch, handler, registry, pc, result, results, idx, cur,
                   calls, synthArgs, events, escaped, tracked, directCalls,
                   chain, stream, wiring, research, storage>>

\* the client goes away while _event_generator waits for an event: the
\* generator is closed and its finally block deletes the queue of the id
EventsDisconnect ==
    /\ pipelines # None
    /\ pipelines.client = "connected"
    /\ pipelines' = [pipelines EXCEPT !.client = "disconnected",
                                      !.queued = FALSE]
    /\ UNCHANGED <<orch, handler, registry, pc, result, results, idx, cur,
                   calls, synthArgs, events, escaped, tracked, directCalls,
                   chain, stream, wiring, research, storage>>

\* _event_generator gets the completion signal: it yields the result, leaves
\* the loop and its finally block deletes the queue of the id
EventsDone ==
    /\ pipelines # None
    /\ pipelines.client = "connected"
    /\ pipelines.done_put
    /\ pipelines' = [pipelines EXCEPT !.client = "ended",
                                      !.queued = FALSE]
    /\ UNCHANGED <<orch, handler, registry, pc, result, results, idx, cur,
                   calls, synthArgs, events, escaped, tracked, directCalls,
                   chain, stream, wiring, research, storage>>

\* get_pipeline_status: the stored result, else running if the id has a
\* queue, else not_found
get_pipeline_status(p) ==
    IF p.stored # None
    THEN [status |-> p.stored[1].status, result |-> p.stored]
    ELSE IF p.queued
         THEN [status |-> "running", result |-> None]
         ELSE [status |-> "not_found", result |-> None]

\* GET /status/{pipeline_id}; the call is logged with what was true of the
\* pipeline when it was made
GetPipelineStatus ==
    /\ pipelines # None
    /\ Len(directCalls) < MaxStatusCalls
    /\ directCalls' = Append(directCalls,
          DirectCall("status",
                     [accepted |-> pc # "pipeline_accept",
                      stored   |-> pipelines.stored],
                     get_pipeline_status(pipelines)))
    /\ UNCHANGED <<orch, handler, registry, pc, result, results, idx, cur,
                   calls, synthArgs, events, escaped, tracked, chain, stream,
                   wiring, research, pipelines, storage>>

NextPipeline ==
    \/ RunPipeline
    \/ ChainStart
    \/ ChainTransformReturn
    \/ ChainTransformRaise
    \/ ChainFinish
    \/ StorePipelineResult
    \/ EventsConnect
    \/ EventsDisconnect
    \/ EventsDone
    \/ GetPipelineStatus

SpecPipeline == InitPipeline /\ [][NextPipeline]_vars

\* every status call made for an accepted pipeline reported it as running
\* before its result was stored and returned the stored result afterwards
StatusCallsAnswered ==
    \A k \in CallsOf("status") :
       LET call == directCalls[k]
       IN  call.args.accepted =>
              IF call.args.stored = None
              THEN call.value.status = "running"
              ELSE call.value.result = call.args.stored

\* C36: from the acceptance of a pipeline id until its result is stored the
\* status endpoint reports running, afterwards it returns the stored
\* result, and never not_found, whether or not a client of the events
\* endpoint connects, and also when one disconnects while the pipeline
\* runs.
C36_StatusOfStartedPipeline == StatusCallsAnswered

\* what holds: the same as long as no client of the events endpoint has
\* gone away
C36_StatusWhileNoClientLeft ==
    pipelines.client \in {"none", "connected"} => StatusCallsAnswered

----------------------------------------------------------------------------
(* MemoryStorage (storage/memory.py) and FileStorage (storage/file.py)      *)
(*                                                                          *)
(* storage.conversations holds the conversations in the order of their      *)
(* creation: the dict of MemoryStorage, or the files of FileStorage as      *)
(* _load_conversation reads them.  Every caller saves one message.  In      *)
(* MemoryStorage save_message does not suspend.  In FileStorage it waits    *)
(* for the lock, and its loading and its writing of the file are separate   *)
(* steps, so that what the lock excludes is visible.  Conversation          *)
(* identifiers are generated ("u1", "u2", ...); "x1" is an identifier no    *)
(* conversation was ever created with.  A message carries, besides its      *)
(* identifier and the conversation it names, one metadata value.            *)

\* Callers that save a message concurrently.
MaxSavers == 2

\* Most calls of create_conversation.
MaxCreated == 1

Savers == 1..MaxSavers

\* kinds of metadata value: a string, or a tuple, which JSON writes as a list
MetadataKinds == {"text", "tuple"}

Message(id, conversation_id, extra) ==
    [id |-> id, conversation_id |-> conversation_id, extra |-> extra]

ConversationLog(conversation_id, messages) ==
    [conversation_id |-> conversation_id, messages |-> messages]

\* str(uuid.uuid4())[:8]: an identifier that has not been used
FreshId(st) == "u" \o ToString(st.generated + 1)

\* the position of a conversation in the store, 0 if it has none
ConvIndex(convs, conversation_id) ==
    LET S == {i \in 1..Len(convs) : convs[i].conversation_id = conversation_id}
    IN  IF S = {} THEN 0 ELSE CHOOSE i \in S : TRUE

\* a message as it comes back from the JSON file
JsonRoundTrip(m) ==
    [m EXCEPT !.extra = IF @ = "tuple" THEN "list" ELSE @]

\* a caller that is not inside save_message
IdleSaver ==
    [pc |-> "idle", message |-> None, conv |-> None, overlapped |-> FALSE]

InitStorage ==
    /\ orch = "none"
    /\ handler = "none"
    /\ registry = <<>>
    /\ pc = "storage"
    /\ result = InitialResult
    /\ results = <<>>
    /\ idx = 0
    /\ cur = 0
    /\ calls = <<>>
    /\ synthArgs = <<>>
    /\ events = <<>>
    /\ escaped = [step |-> "none", msg |-> ""]
    /\ tracked = [status |-> "none", error |-> None]
    /\ directCalls = <<>>
    /\ chain = None
    /\ stream = None
    /\ wiring = NotWired
    /\ research = None
    /\ pipelines = None
    /\ \E kind \in {"memory", "file"} :
          storage = [kind          |-> kind,
                     conversations |-> <<>>,
                     generated     |-> 0,
                     lock          |-> None,
                     savers        |-> [c \in Savers |-> IdleSaver]]

\* create_conversation; in FileStorage under the lock
CreateConversation ==
    /\ pc = "storage"
    /\ storage.generated < MaxCreated
    /\ storage.lock = None
    /\ storage' = [storage EXCEPT
          !.conversations = Append(@, ConversationLog(FreshId(storage), <<>>)),
          !.generated = @ + 1]
    /\ UNCHANGED <<orch, handler, registry, pc, result, results, idx, cur,
                   calls, synthArgs, events, escaped, tracked, directCalls,
                   chain, stream, wiring, research, pipelines>>

\* the conversation identifiers a message can name: those create_conversation
\* has returned, and one that names no conversation
KnownIds(st) ==
    {st.conversations[i].conversation_id : i \in 1..Len(st.conversations)}
    \cup {"x1"}

\* MemoryStorage.save_message: a conversation that is missing is created
\* under a new identifier and the message is appended to it
memory_save_message(st, m) ==
    LET i == ConvIndex(st.conversations, m.conversation_id)
    IN  IF i # 0
        THEN [st EXCEPT !.conversations[i].messages = Append(@, m)]
        ELSE [st EXCEPT
                !.conversations =
                    Append(@, ConversationLog(FreshId(st), <<m>>)),
                !.generated = @ + 1]

\* save_message is called.  MemoryStorage saves the message without
\* suspending; FileStorage first waits for the lock.
SaveMessage ==
    /\ pc = "storage"
    /\ \E c \in Savers :
       \E conversation_id \in KnownIds(storage) :
       \E extra \in MetadataKinds :
          LET m == Message("m" \o ToString(c), conversation_id, extra)
          IN  /\ storage.savers[c].pc = "idle"
              /\ IF storage.kind = "memory"
                 THEN /\ storage' = [memory_save_message(storage, m) EXCEPT
                            !.savers[c].pc = "done",
                            !.savers[c].message = Some(m)]
                      /\ directCalls' = Append(directCalls,
                            DirectCall("save_message", m, None))
                 ELSE /\ storage' = [storage EXCEPT
                            !.savers[c].pc = "wait_lock",
                            !.savers[c].message = Some(m),
                            !.savers[c].overlapped =
                               \E o \in Savers :
                                  storage.savers[o].pc \in
                                     {"wait_lock", "load", "store"}]
                      /\ directCalls' = directCalls
    /\ UNCHANGED <<orch, handler, registry, pc, result, results, idx, cur,
                   calls, synthArgs, events, escaped, tracked, chain, stream,
                   wiring, research, pipelines>>

\* a save_message that does not take the lock
FileAcquire_WithoutLock ==
    /\ pc = "storage"
    /\ \E c \in Savers :
          /\ storage.savers[c].pc = "wait_lock"
          /\ storage' = [storage EXCEPT !.savers[c].pc = "load"]
    /\ UNCHANGED <<orch, handler, registry, pc, result, results, idx, cur,
                   calls, synthArgs, events, escaped, tracked, directCalls,
                   chain, stream, wiring, research, pipelines>>

\* async with self._lock: the caller goes on once the lock is free
FileAcquire ==
    /\ pc = "storage"
    /\ \E c \in Savers :
          /\ storage.savers[c].pc = "wait_lock"
          /\ storage.lock = None
          /\ storage' = [storage EXCEPT !.savers[c].pc = "load",
                                        !.lock = Some(c)]
    /\ UNCHANGED <<orch, handler, registry, pc, result, results, idx, cur,
                   calls, synthArgs, events, escaped, tracked, directCalls,
                   chain, stream, wiring, research, pipelines>>

\* _load_conversation, and the new conversation if there is no file
FileLoad ==
    /\ pc = "storage"
    /\ \E c \in Savers :
          /\ storage.savers[c].pc = "load"
          /\ LET m == storage.savers[c].message[1]
                 i == ConvIndex(storage.conversations, m.conversation_id)
             IN  IF i # 0
                 THEN storage' = [storage EXCEPT
                         !.savers[c].pc = "store",
                         !.savers[c].conv = Some(storage.conversations[i])]
                 ELSE storage' = [storage EXCEPT
                         !.savers[c].pc = "store",
                         !.savers[c].conv =
                            Some(ConversationLog(FreshId(storage), <<>>)),
                         !.generated = @ + 1]
    /\ UNCHANGED <<orch, handler, registry, pc, result, results, idx, cur,
                   calls, synthArgs, events, escaped, tracked, directCalls,
                   chain, stream, wiring, research, pipelines>>

\* the file _save_conversation writes for a conversation
WriteFile(convs, conv) ==
    LET written == ConversationLog(conv.conversation_id,
                      [k \in 1..Len(conv.messages) |->
                          JsonRoundTrip(conv.messages[k])])
        i       == ConvIndex(convs, conv.conversation_id)
    IN  IF i # 0 THEN [convs EXCEPT ![i] = written]
        ELSE Append(convs, written)

\* the message is appended to the loaded conversation, the file is written
\* and the lock is released
FileStore ==
    /\ pc = "storage"
    /\ \E c \in Savers :
          /\ storage.savers[c].pc = "store"
          /\ LET m    == storage.savers[c].message[1]
                 conv == storage.savers[c].conv[1]
                 full == [conv EXCEPT !.messages = Append(@, m)]
             IN  /\ storage' = [storage EXCEPT
                       !.conversations = WriteFile(@, full),
                       !.lock = IF @ = Some(c) THEN None ELSE @,
                       !.savers[c].pc = "done",
                       !.savers[c].conv = None]
                 /\ directCalls' = Append(directCalls,
                       DirectCall("save_message", m, None))
    /\ UNCHANGED <<orch, handler, registry, pc, result, results, idx, cur,
                   calls, synthArgs, events, escaped, tracked, chain, stream,
                   wiring, research, pipelines>>

\* get_messages: the messages of the conversation, none if there is no such
\* conversation
get_messages(st, conversation_id) ==
    LET i == ConvIndex(st.conversations, conversation_id)
    IN  IF i = 0 THEN <<>> ELSE st.conversations[i].messages

NextStorage ==
    \/ CreateConversation
    \/ SaveMessage
    \/ FileAcquire
    \/ FileLoad
    \/ FileStore

SpecStorage == InitStorage /\ [][NextStorage]_vars

\* the identifiers of a sequence of messages
MessageIds(messages) == [k \in 1..Len(messages) |-> messages[k].id]

\* the messages whose save_message has returned and that named the
\* conversation, in the order in which the calls returned
SavedTo(conversation_id) ==
    LET saved == SelectSeq(directCalls, LAMBDA d : d.op = "save_message")
    IN  SelectSeq([k \in 1..Len(saved) |-> saved[k].args],
                  LAMBDA m : m.conversation_id = conversation_id)

\* C37: the save_message calls that run concurrently on one FileStorage for
\* an existing conversation all take effect: the conversation holds the
\* message of every call that has returned exactly once, and never the
\* message of a call that has not.
C37_ConcurrentSavesAllStored ==
    storage.kind = "file" =>
       \A i \in 1..Len(storage.conversations) :
          LET conv == storage.conversations[i]
          IN  conv.conversation_id \in KnownIds(storage) =>
                 /\ \A m \in Range(SavedTo(conv.conversation_id)) :
                       Cardinality({k \in 1..Len(conv.messages) :
                                       conv.messages[k].id = m.id}) = 1
                 /\ Len(conv.messages) <= Len(directCalls)

\* C37 witness: two calls for the same existing conversation were inside
\* save_message at the same time, both have returned and both messages are
\* in the conversation
C37_Witness ==
    /\ storage.kind = "file"
    /\ \A c \in Savers : storage.savers[c].pc = "done"
    /\ \E c \in Savers : storage.savers[c].overlapped
    /\ Len(storage.conversations) = 1
    /\ Len(get_messages(storage, "u1")) = MaxSavers
    /\ Len(SavedTo("u1")) = MaxSavers

\* C38: a message saved with conversation id c is among get_messages(c),
\* and get_messages(c) returns the messages saved for c in the order in
\* which they were saved, whether or not a conversation c had been created.
C38_SavedMessagesAreReturned ==
    \A c \in KnownIds(storage) :
       /\ \A m \in Range(SavedTo(c)) : m \in Range(get_messages(storage, c))
       /\ MessageIds(get_messages(storage, c)) = MessageIds(SavedTo(c))

\* what holds: the messages saved for a conversation that exists are
\* returned in the order in which they were saved, as they were saved by
\* MemoryStorage and as they come back from the JSON file by FileStorage
\* (a conversation that save_message created itself also holds the message
\* that named another conversation)
C38_ReturnedFromExistingConversation ==
    \A c \in KnownIds(storage) \ {"x1"} :
       SelectSeq(get_messages(storage, c),
                 LAMBDA m : m.conversation_id = c) =
          [k \in 1..Len(SavedTo(c)) |->
              IF storage.kind = "file" THEN JsonRoundTrip(SavedTo(c)[k])
              ELSE SavedTo(c)[k]]

----------------------------------------------------------------------------
(* The graph_update events of one task (graph/nodes.py) *)

\* the node identifiers that the add_node events among the first n events
\* have introduced
IntroducedBefore(n) ==
    {events[j].a : j \in {i \in 1..n : events[i].type = "add_node"}}

\* C39: in the events of one task of the graph runner, every update_node
\* names a node that an earlier add_node has introduced, and every add_edge
\* connects two nodes that earlier add_node events have introduced.
C39_NodesIntroducedBeforeUse ==
    orch = "graph" =>
       \A k \in 1..Len(events) :
          /\ events[k].type = "update_node" =>
                events[k].a \in IntroducedBefore(k - 1)
          /\ events[k].type = "add_edge" =>
                /\ events[k].a \in IntroducedBefore(k - 1)
                /\ events[k].b \in IntroducedBefore(k - 1)

\* C39 witness: a finished run whose events update the node of a capability
\* and of an agent, connect a capability with an agent and connect an agent
\* with the synthesizer
C39_Witness ==
    /\ orch = "graph"
    /\ pc = "done"
    /\ tracked.status = "completed"
    /\ \E k \in 1..Len(events) :
          /\ events[k].type = "update_node"
          /\ events[k].a = "cap_calculation"
    /\ \E k \in 1..Len(events) :
          /\ events[k].type = "update_node"
          /\ events[k].a = "agent_calc"
    /\ \E k \in 1..Len(events) :
          /\ events[k].type = "add_edge"
          /\ events[k].a = "cap_calculation"
          /\ events[k].b = "agent_calc"
    /\ \E k \in 1..Len(events) :
          /\ events[k].type = "add_edge"
          /\ events[k].a = "agent_calc"
          /\ events[k].b = "synthesize"

====
